---- MODULE Spec2Model ----
(***************************************************************************)
(* A model of the papua-natural-capital helpers: the carbon valuation      *)
(* arithmetic (models/carbon.py), the raster edits of data/preprocess.py,  *)
(* the exception handlers of the package, download_file                    *)
(* (data/download.py) and the input validation of prepare_carbon_inputs;   *)
(* run_carbon_model and summarize_carbon_results, extract_invest_results,  *)
(* download_admin_boundaries, the placeholder downloads, the file handles  *)
(* each function opens, clip_raster_to_region with reproject_raster,       *)
(* create_carbon_pool_table, prepare_all_data and create_comparison_map    *)
(* (visualization/maps.py).                                                *)
(*                                                                         *)
(* The program is a set of independent functions over files on disk, so    *)
(* the model has one specification per group of functions; each one leaves *)
(* the variables of the other groups untouched.                            *)
(***************************************************************************)
EXTENDS Integers, Sequences, FiniteSets, TLC

VARIABLES
    vcall,      \* valuation: the last call, its name and arguments
    vres,       \* valuation: the dict the last call returned
    base,       \* rasters: band 1 of the input raster, pixel -> value
    baseNodata, \* rasters: the nodata value of the input raster, or NoNodata
    rcall,      \* rasters: the last call, its arguments and its outcome
    written,    \* rasters: the raster file the last call wrote
    ecall,      \* failure handling: the operation being executed
    epc,        \* failure handling: the index of its next step
    estatus,    \* failure handling: "idle", "running", "returned" or "raised"
    eraised,    \* failure handling: the steps that raised during the call
    ecaught,    \* failure handling: the steps whose exception a handler caught
    eexc,       \* failure handling: the exception that reached the caller
    elog,       \* failure handling: messages logged or printed by handlers
    dDisk,      \* download: the data directory and the file at each path
    dFirst,     \* download: the file at each path before the first call
    dFailed,    \* download: the paths whose latest call failed in the download
    dReq,       \* download: the HTTP requests issued so far
    dCalls,     \* download: the calls of download_file made so far
    dLast,      \* download: the last call: what it saw and how it ended
    iDisk,      \* carbon inputs: the input files, their content, output_dir
    iArgs,      \* carbon inputs: the arguments of prepare_carbon_inputs
    iRes,       \* carbon inputs: the outcome of the call and what it touched
    mWork,      \* carbon run: total_carbon.tif in workspace_dir, or NoFile
    mpc,        \* carbon run: where run_carbon_model is
    mExc,       \* carbon run: the exception that reached the caller
    mRes,       \* carbon run: the dict run_carbon_model returned
    mTrace,     \* carbon run: what the call has done so far, in order
    xWork,      \* extraction: the two output rasters of the InVEST workspace
    xCall,      \* extraction: the arguments of extract_invest_results
    xOut,       \* extraction: the files of output_dir, name -> content
    xRes,       \* extraction: the outcome of the call and the dict returned
    bDisk,      \* boundaries: output_dir, the zip in it, the extracted files
    bArchive,   \* boundaries: the admin levels in the archive the server has
    bCalls,     \* boundaries: the calls of download_admin_boundaries so far
    bLast,      \* boundaries: the last call: what it saw, did and returned
    pDisk,      \* placeholders: output_dir and the file at each path
    pFirst,     \* placeholders: the file each path had when a call first returned it
    pCalls,     \* placeholders: the calls made so far
    pLast,      \* placeholders: the last call and how it ended
    hCall,      \* handles: the operation being executed
    hpc,        \* handles: the index of its next step
    hStatus,    \* handles: "idle", "running", "returned" or "raised"
    hOpen,      \* handles: the handles that are open
    jFiles0,    \* reprojection: the raster at each path when the call is made
    jFiles,     \* reprojection: the raster at each path
    jCall,      \* reprojection: the call and its arguments
    jpc,        \* reprojection: where the call is
    jRun,       \* reprojection: the open source, the band index, what happened
    tIn,        \* carbon pool table: the class table, carbon_values, output_csv
    tOut,       \* carbon pool table: the CSV at output_csv
    tRes,       \* carbon pool table: how the call ended
    aIn,        \* prepare_all_data: the raw data directories when it is called
    aOut,       \* prepare_all_data: the tables it has written
    aRes,       \* prepare_all_data: how the call ended and the dict returned
    cIn,        \* comparison map: the arguments of create_comparison_map
    cpc,        \* comparison map: the index of its next step, 0 before the call
    cTmp,       \* comparison map: the temporary difference raster, or NoFile
    cOut,       \* comparison map: whether the map at output_path was saved
    cRes        \* comparison map: how the call ended

valVars == <<vcall, vres>>

rasVars == <<base, baseNodata, rcall, written>>

errVars == <<ecall, epc, estatus, eraised, ecaught, eexc, elog>>

dlVars == <<dDisk, dFirst, dFailed, dReq, dCalls, dLast>>

inpVars == <<iDisk, iArgs, iRes>>

runVars == <<mWork, mpc, mExc, mRes, mTrace>>

extVars == <<xWork, xCall, xOut, xRes>>

admVars == <<bDisk, bArchive, bCalls, bLast>>

plcVars == <<pDisk, pFirst, pCalls, pLast>>

hdlVars == <<hCall, hpc, hStatus, hOpen>>

rpjVars == <<jFiles0, jFiles, jCall, jpc, jRun>>

tblVars == <<tIn, tOut, tRes>>

prpVars == <<aIn, aOut, aRes>>

cmpVars == <<cIn, cpc, cTmp, cOut, cRes>>

vars == <<vcall, vres, base, baseNodata, rcall, written,
          ecall, epc, estatus, eraised, ecaught, eexc, elog,
          dDisk, dFirst, dFailed, dReq, dCalls, dLast,
          iDisk, iArgs, iRes,
          mWork, mpc, mExc, mRes, mTrace,
          xWork, xCall, xOut, xRes,
          bDisk, bArchive, bCalls, bLast,
          pDisk, pFirst, pCalls, pLast,
          hCall, hpc, hStatus, hOpen,
          jFiles0, jFiles, jCall, jpc, jRun,
          tIn, tOut, tRes,
          aIn, aOut, aRes,
          cIn, cpc, cTmp, cOut, cRes>>

(***************************************************************************)
(* Exact arithmetic.  Python floats are modelled by normalised fractions   *)
(* [n, d]; d = 0 encodes the IEEE specials: 0/0 is nan, 1/0 is inf.        *)
(***************************************************************************)
Abs(x) == IF x < 0 THEN -x ELSE x

Sign(x) == IF x < 0 THEN -1 ELSE IF x = 0 THEN 0 ELSE 1

RECURSIVE GCD(_, _)
GCD(a, b) == IF b = 0 THEN a ELSE GCD(b, a % b)

Rat(n, d) ==
    IF d = 0 THEN [n |-> Sign(n), d |-> 0]
    ELSE LET g == GCD(Abs(n), Abs(d))
             s == Sign(d)
         IN  [n |-> s * Sign(n) * (Abs(n) \div g), d |-> Abs(d) \div g]

FromInt(k) == Rat(k, 1)

NaN == [n |-> 0, d |-> 0]

Inf == [n |-> 1, d |-> 0]

RMul(x, y) == Rat(x.n * y.n, x.d * y.d)

RDiv(x, y) == Rat(x.n * y.d, x.d * y.n)

RSub(x, y) == Rat(x.n * y.d - y.n * x.d, x.d * y.d)

RNeg(x) == Rat(-x.n, x.d)

RPos(x) == x.d > 0 /\ x.n > 0

RECURSIVE SeqSum(_)
SeqSum(s) == IF s = <<>> THEN 0 ELSE Head(s) + SeqSum(Tail(s))

(***************************************************************************)
(* Bounds of the valuation inputs.                                         *)
(***************************************************************************)
MaxCarbon == 3

MaxArea == 2

MaxLen == 2

RECURSIVE SeqsUpTo(_, _)
SeqsUpTo(S, k) ==
    IF k = 0 THEN {<<>>}
    ELSE LET shorter == SeqsUpTo(S, k - 1)
         IN  shorter \cup {Append(s, x) : s \in {t \in shorter : Len(t) = k - 1}, x \in S}

\* carbon_data is a float (kind "scalar", halves of Mg C/ha) or a numpy array
ScalarData == {[kind |-> "scalar", v |-> Rat(k, 2)] : k \in 0..MaxCarbon}

ArrayData == {[kind |-> "array", v |-> s] : s \in SeqsUpTo(0..2, MaxLen)}

CarbonData == ScalarData \cup ArrayData

AreaVals == {FromInt(a) : a \in 0..MaxArea}

DefaultPrice == 40

PriceVals == {FromInt(DefaultPrice), FromInt(15)}

DefaultRatePercent == 4

RateVals == {Rat(k, 100) : k \in {-DefaultRatePercent, 0, DefaultRatePercent, 10}}

(***************************************************************************)
(* models/carbon.py                                                        *)
(***************************************************************************)
CO2FactorNum == 367

CO2FactorDen == 100

co2_factor == Rat(CO2FactorNum, CO2FactorDen)

\* np.mean: the sum over the length; nan for an empty array
NpMean(s) == Rat(SeqSum(s), Len(s))

\* the isinstance(carbon_data, np.ndarray) branches
MeanOf(data) == IF data.kind = "array" THEN NpMean(data.v) ELSE data.v

\* a variant of TotalOf that does not divide the sum by the array length
TotalOf_Sum(data, area_ha) ==
    IF data.kind = "array"
    THEN IF Len(data.v) > 0
         THEN RMul(FromInt(SeqSum(data.v)), area_ha)
         ELSE FromInt(0)
    ELSE RMul(data.v, area_ha)

TotalOf(data, area_ha) ==
    IF data.kind = "array"
    THEN IF Len(data.v) > 0
         THEN RDiv(RMul(FromInt(SeqSum(data.v)), area_ha), FromInt(Len(data.v)))
         ELSE FromInt(0)
    ELSE RMul(data.v, area_ha)

\* a variant of NpvOf that multiplies by the rate instead of dividing
NpvOf_Times(value, discount_rate) ==
    IF RPos(discount_rate) THEN RMul(value, discount_rate) ELSE Inf

NpvOf(value, discount_rate) ==
    IF RPos(discount_rate) THEN RDiv(value, discount_rate) ELSE Inf

calculate_carbon_value(carbon_data, area_ha, price_per_ton_co2, discount_rate) ==
    LET mean_carbon  == MeanOf(carbon_data)
        total_carbon == TotalOf(carbon_data, area_ha)
        mean_co2     == RMul(mean_carbon, co2_factor)
        total_co2    == RMul(total_carbon, co2_factor)
        value_per_ha == RMul(mean_co2, price_per_ton_co2)
        total_value  == RMul(total_co2, price_per_ton_co2)
    IN  [mean_carbon_mgha |-> mean_carbon,
         total_carbon_mg  |-> total_carbon,
         mean_co2_mgha    |-> mean_co2,
         total_co2_mg     |-> total_co2,
         value_per_ha_usd |-> value_per_ha,
         total_value_usd  |-> total_value,
         npv_per_ha_usd   |-> NpvOf(value_per_ha, discount_rate),
         npv_total_usd    |-> NpvOf(total_value, discount_rate)]

\* a variant of DiffOf with the operands the other way round
DiffOf_Swapped(scenario_mean, baseline_mean) == RSub(baseline_mean, scenario_mean)

DiffOf(scenario_mean, baseline_mean) == RSub(scenario_mean, baseline_mean)

compare_scenarios(baseline_carbon, scenario_carbon, area_ha, price_per_ton_co2) ==
    LET baseline_mean     == MeanOf(baseline_carbon)
        scenario_mean     == MeanOf(scenario_carbon)
        carbon_diff       == DiffOf(scenario_mean, baseline_mean)
        carbon_diff_total == RMul(carbon_diff, area_ha)
        co2_diff          == RMul(carbon_diff, co2_factor)
        co2_diff_total    == RMul(carbon_diff_total, co2_factor)
        value_diff_per_ha == RMul(co2_diff, price_per_ton_co2)
        value_diff_total  == RMul(co2_diff_total, price_per_ton_co2)
        percent_change    ==
            IF baseline_mean # FromInt(0)
            THEN RMul(RDiv(carbon_diff, baseline_mean), FromInt(100))
            ELSE Inf
    IN  [baseline_carbon_mgha  |-> baseline_mean,
         scenario_carbon_mgha  |-> scenario_mean,
         carbon_diff_mgha      |-> carbon_diff,
         carbon_diff_total_mg  |-> carbon_diff_total,
         co2_diff_mgha         |-> co2_diff,
         co2_diff_total_mg     |-> co2_diff_total,
         value_diff_per_ha_usd |-> value_diff_per_ha,
         value_diff_total_usd  |-> value_diff_total,
         percent_change        |-> percent_change]

NoCall == [op |-> "none"]

\* the calls a caller can make: the arguments are drawn when the run starts
CalcCalls ==
    {[op |-> "calculate_carbon_value", carbon_data |-> c, area_ha |-> a,
      price_per_ton_co2 |-> p, discount_rate |-> r] :
        c \in CarbonData, a \in AreaVals, p \in PriceVals, r \in RateVals}

CompareCalls ==
    {[op |-> "compare_scenarios", baseline_carbon |-> b, scenario_carbon |-> s,
      area_ha |-> a, price_per_ton_co2 |-> p] :
        b \in CarbonData, s \in CarbonData, a \in AreaVals, p \in PriceVals}

ValStart ==
    /\ vcall \in CalcCalls \cup CompareCalls
    /\ vres = NoCall

ValIdle ==
    /\ vcall = NoCall
    /\ vres = NoCall

CalculateCarbonValue ==
    /\ vcall.op = "calculate_carbon_value"
    /\ vres = NoCall
    /\ vres' = calculate_carbon_value(vcall.carbon_data, vcall.area_ha,
                                      vcall.price_per_ton_co2, vcall.discount_rate)
    /\ UNCHANGED <<vcall, rasVars, errVars, dlVars, inpVars, runVars, extVars,
                   admVars, plcVars, hdlVars, rpjVars, tblVars, prpVars,
                   cmpVars>>

CompareScenarios ==
    /\ vcall.op = "compare_scenarios"
    /\ vres = NoCall
    /\ vres' = compare_scenarios(vcall.baseline_carbon, vcall.scenario_carbon,
                                 vcall.area_ha, vcall.price_per_ton_co2)
    /\ UNCHANGED <<vcall, rasVars, errVars, dlVars, inpVars, runVars, extVars,
                   admVars, plcVars, hdlVars, rpjVars, tblVars, prpVars,
                   cmpVars>>

(***************************************************************************)
(* data/preprocess.py: rasters.  A raster band is a function from pixels   *)
(* to values; a geometry is the set of pixels it covers.                   *)
(***************************************************************************)
NPixels == 2

MaxClass == 2

MaxAreas == 2

MaxRows == 2

Pixels == 1..NPixels

Classes == 0..MaxClass

\* src.nodata is None
NoNodata == -1

NoRaster == [exists |-> FALSE]

Min(a, b) == IF a < b THEN a ELSE b

\* zip(xs, ys): pairs up to the shorter of the two
Zip(xs, ys) == [i \in 1..Min(Len(xs), Len(ys)) |-> <<xs[i], ys[i]>>]

\* rasterio.mask.mask(src, geoms, crop=False, invert=False)[0]: the band with
\* every pixel outside the geometries filled with the nodata value, which is
\* the raster's own or, when it has none, 0
FillValue == IF baseNodata = NoNodata THEN 0 ELSE baseNodata

MaskOut(area) == [p \in Pixels |-> IF p \in area THEN base[p] ELSE FillValue]

\* ndarray.astype(bool)
AsBool(v) == v # 0

\* scenario_data[area_mask] = new_value
UpdateArea(scenario_data, area, new_value) ==
    LET area_mask == [p \in Pixels |-> AsBool(MaskOut(area)[p])]
    IN  [p \in Pixels |-> IF area_mask[p] THEN new_value ELSE scenario_data[p]]

RECURSIVE UpdateAreas(_, _)
UpdateAreas(scenario_data, pairs) ==
    IF pairs = <<>> THEN scenario_data
    ELSE UpdateAreas(UpdateArea(scenario_data, Head(pairs)[1], Head(pairs)[2]),
                     Tail(pairs))

create_scenario_lulc(change_areas, new_values) ==
    [exists |-> TRUE,
     pix    |-> UpdateAreas(base, Zip(change_areas, new_values)),
     nodata |-> baseNodata]

\* dict(zip(original_value, new_value)): a later row replaces the value of an
\* earlier row with the same key and keeps its place
DictPut(items, k, v) ==
    IF \E i \in 1..Len(items) : items[i][1] = k
    THEN [i \in 1..Len(items) |-> IF items[i][1] = k THEN <<k, v>> ELSE items[i]]
    ELSE Append(items, <<k, v>>)

RECURSIVE DictItems(_, _)
DictItems(items, rows) ==
    IF rows = <<>> THEN items
    ELSE DictItems(DictPut(items, Head(rows)[1], Head(rows)[2]), Tail(rows))

\* a variant of ReclassStep that compares the array being rewritten
ReclassStep_InPlace(lulc_data, reclass_data, orig_val, new_val) ==
    [p \in Pixels |-> IF reclass_data[p] = orig_val THEN new_val ELSE reclass_data[p]]

\* reclass_data[lulc_data == orig_val] = new_val
ReclassStep(lulc_data, reclass_data, orig_val, new_val) ==
    [p \in Pixels |-> IF lulc_data[p] = orig_val THEN new_val ELSE reclass_data[p]]

RECURSIVE ReclassLoop(_, _, _)
ReclassLoop(lulc_data, reclass_data, items) ==
    IF items = <<>> THEN reclass_data
    ELSE ReclassLoop(lulc_data,
                     ReclassStep(lulc_data, reclass_data, Head(items)[1], Head(items)[2]),
                     Tail(items))

\* reclassify_table is None, or the rows <<original_value, new_value>>
NoTable == [given |-> FALSE]

Tables == {[given |-> TRUE, rows |-> r] : r \in SeqsUpTo(Classes \X Classes, MaxRows)}

prepare_lulc_for_invest(reclassify_table) ==
    [exists |-> TRUE,
     pix    |-> IF reclassify_table.given
                THEN ReclassLoop(base, base, DictItems(<<>>, reclassify_table.rows))
                ELSE base,
     nodata |-> 0]

RasStart ==
    /\ base \in [Pixels -> Classes]
    /\ baseNodata \in {NoNodata} \cup Classes
    /\ rcall = NoCall
    /\ written = NoRaster

RasIdle ==
    /\ base = [p \in Pixels |-> 0]
    /\ baseNodata = NoNodata
    /\ rcall = NoCall
    /\ written = NoRaster

CreateScenarioLulc ==
    /\ rcall = NoCall
    /\ \E areas \in SeqsUpTo(SUBSET Pixels, MaxAreas),
          vals \in SeqsUpTo(Classes, MaxAreas) :
          /\ rcall' = [op |-> "create_scenario_lulc", change_areas |-> areas,
                       new_values |-> vals, outcome |-> "returned"]
          /\ written' = create_scenario_lulc(areas, vals)
    /\ UNCHANGED <<base, baseNodata, valVars, errVars, dlVars, inpVars,
                   runVars, extVars, admVars, plcVars, hdlVars, rpjVars,
                   tblVars, prpVars, cmpVars>>

\* rasterio.open or a later step raises: the handler logs and re-raises, and
\* nothing has been written
CreateScenarioLulcRaises ==
    /\ rcall = NoCall
    /\ rcall' = [op |-> "create_scenario_lulc", change_areas |-> <<>>,
                 new_values |-> <<>>, outcome |-> "raised"]
    /\ UNCHANGED <<base, baseNodata, written, valVars, errVars, dlVars, inpVars,
                   runVars, extVars, admVars, plcVars, hdlVars, rpjVars,
                   tblVars, prpVars, cmpVars>>

PrepareLulcForInvest ==
    /\ rcall = NoCall
    /\ \E t \in Tables \cup {NoTable} :
          /\ rcall' = [op |-> "prepare_lulc_for_invest", reclassify_table |-> t,
                       outcome |-> "returned"]
          /\ written' = prepare_lulc_for_invest(t)
    /\ UNCHANGED <<base, baseNodata, valVars, errVars, dlVars, inpVars,
                   runVars, extVars, admVars, plcVars, hdlVars, rpjVars,
                   tblVars, prpVars, cmpVars>>

PrepareLulcForInvestRaises ==
    /\ rcall = NoCall
    /\ rcall' = [op |-> "prepare_lulc_for_invest", reclassify_table |-> NoTable,
                 outcome |-> "raised"]
    /\ UNCHANGED <<base, baseNodata, written, valVars, errVars, dlVars, inpVars,
                   runVars, extVars, admVars, plcVars, hdlVars, rpjVars,
                   tblVars, prpVars, cmpVars>>

(***************************************************************************)
(* Failure handling.  An operation is the sequence of its steps that can   *)
(* raise; a step is guarded by the except handler of the try block that    *)
(* encloses it: "none" (no try block), "reraise" (log, then a bare raise)  *)
(* or "warn" (print a warning and go on).                                  *)
(***************************************************************************)
Step(name, handler) == [name |-> name, handler |-> handler]

\* download.py
\* a variant of download_file_steps whose handler only reports the failure
download_file_steps_Warn ==
    <<Step("makedirs", "none"), Step("request_and_write", "warn")>>

download_file_steps ==
    <<Step("makedirs", "none"), Step("request_and_write", "reraise")>>

unzip_file_steps == <<Step("extractall", "reraise")>>

download_admin_boundaries_steps ==
    <<Step("makedirs", "none"), Step("download_file", "none"),
      Step("unzip_file", "none"), Step("shapefile_exists", "none")>>

clip_raster_to_region_steps == <<Step("mask_and_write", "reraise")>>

reproject_raster_steps == <<Step("reproject_and_write", "reraise")>>

\* preprocess.py
prepare_lulc_for_invest_steps == <<Step("reclassify_and_write", "reraise")>>

create_lulc_attribute_table_steps == <<Step("read_and_write_csv", "reraise")>>

create_carbon_pool_table_steps == <<Step("read_and_write_csv", "reraise")>>

create_scenario_lulc_steps == <<Step("mask_and_write", "reraise")>>

extract_invest_results_steps == <<Step("copy_and_summarize", "reraise")>>

prepare_all_data_steps ==
    <<Step("listdir", "none"), Step("create_lulc_attribute_table", "none"),
      Step("create_scenario_lulc", "none")>>

\* carbon.py
prepare_carbon_inputs_steps ==
    <<Step("inputs_exist", "none"), Step("makedirs", "none"),
      Step("read_raster", "reraise"), Step("read_csv", "reraise")>>

run_carbon_model_steps ==
    <<Step("execute", "reraise"), Step("summarize_carbon_results", "none")>>

summarize_carbon_results_steps ==
    <<Step("output_exists", "none"), Step("read_raster", "none")>>

extract_carbon_for_region_steps == <<Step("mask_and_summarize", "reraise")>>

\* maps.py
create_carbon_map_steps(add_basemap) ==
    IF add_basemap
    THEN <<Step("show_raster", "none"), Step("add_basemap", "warn"),
           Step("savefig", "none")>>
    ELSE <<Step("show_raster", "none"), Step("savefig", "none")>>

create_comparison_map_steps ==
    <<Step("read_rasters", "none"), Step("write_and_show_difference", "none"),
      Step("savefig", "none")>>

OpNames ==
    {"download_file", "unzip_file", "download_admin_boundaries",
     "clip_raster_to_region", "reproject_raster", "prepare_lulc_for_invest",
     "create_lulc_attribute_table", "create_carbon_pool_table",
     "create_scenario_lulc", "extract_invest_results", "prepare_all_data",
     "prepare_carbon_inputs", "run_carbon_model", "summarize_carbon_results",
     "extract_carbon_for_region", "create_carbon_map", "create_comparison_map"}

StepsOf(call) ==
    CASE call.op = "download_file" -> download_file_steps
      [] call.op = "unzip_file" -> unzip_file_steps
      [] call.op = "download_admin_boundaries" -> download_admin_boundaries_steps
      [] call.op = "clip_raster_to_region" -> clip_raster_to_region_steps
      [] call.op = "reproject_raster" -> reproject_raster_steps
      [] call.op = "prepare_lulc_for_invest" -> prepare_lulc_for_invest_steps
      [] call.op = "create_lulc_attribute_table" -> create_lulc_attribute_table_steps
      [] call.op = "create_carbon_pool_table" -> create_carbon_pool_table_steps
      [] call.op = "create_scenario_lulc" -> create_scenario_lulc_steps
      [] call.op = "extract_invest_results" -> extract_invest_results_steps
      [] call.op = "prepare_all_data" -> prepare_all_data_steps
      [] call.op = "prepare_carbon_inputs" -> prepare_carbon_inputs_steps
      [] call.op = "run_carbon_model" -> run_carbon_model_steps
      [] call.op = "summarize_carbon_results" -> summarize_carbon_results_steps
      [] call.op = "extract_carbon_for_region" -> extract_carbon_for_region_steps
      [] call.op = "create_carbon_map" -> create_carbon_map_steps(call.add_basemap)
      [] call.op = "create_comparison_map" -> create_comparison_map_steps

ExcKinds == {"OSError", "ValueError"}

NoExc == "none"

ErrIdle ==
    /\ ecall = NoCall
    /\ epc = 0
    /\ estatus = "idle"
    /\ eraised = {}
    /\ ecaught = {}
    /\ eexc = NoExc
    /\ elog = 0

\* the caller makes a call
ECall ==
    /\ estatus = "idle"
    /\ \E op \in OpNames, flag \in BOOLEAN :
          ecall' = [op |-> op, add_basemap |-> (op = "create_carbon_map" /\ flag)]
    /\ epc' = 1
    /\ estatus' = "running"
    /\ UNCHANGED <<eraised, ecaught, eexc, elog, valVars, rasVars, dlVars, inpVars,
                   runVars, extVars, admVars, plcVars, hdlVars, rpjVars,
                   tblVars, prpVars, cmpVars>>

\* the next step of the operation completes; after the last one it returns
EStepOk ==
    /\ estatus = "running"
    /\ epc' = epc + 1
    /\ estatus' = IF epc = Len(StepsOf(ecall)) THEN "returned" ELSE "running"
    /\ UNCHANGED <<ecall, eraised, ecaught, eexc, elog, valVars, rasVars, dlVars, inpVars,
                   runVars, extVars, admVars, plcVars, hdlVars, rpjVars,
                   tblVars, prpVars, cmpVars>>

\* the next step raises exception e: it propagates when no try block encloses
\* the step; a "reraise" handler logs it and raises it again; a "warn" handler
\* prints it and the operation goes on with the step after the try block
EStepRaises ==
    /\ estatus = "running"
    /\ \E e \in ExcKinds :
          LET step == StepsOf(ecall)[epc]
          IN  /\ eraised' = eraised \cup {step.name}
              /\ ecaught' = IF step.handler = "none" THEN ecaught
                            ELSE ecaught \cup {step.name}
              /\ elog' = IF step.handler = "none" THEN elog ELSE elog + 1
              /\ IF step.handler = "warn"
                 THEN /\ epc' = epc + 1
                      /\ estatus' = IF epc = Len(StepsOf(ecall)) THEN "returned"
                                    ELSE "running"
                      /\ eexc' = eexc
                 ELSE /\ epc' = epc
                      /\ estatus' = "raised"
                      /\ eexc' = e
    /\ UNCHANGED <<ecall, valVars, rasVars, dlVars, inpVars, runVars, extVars,
                   admVars, plcVars, hdlVars, rpjVars, tblVars, prpVars,
                   cmpVars>>

ValNext == CalculateCarbonValue \/ CompareScenarios

ScenarioNext == CreateScenarioLulc \/ CreateScenarioLulcRaises

ReclassNext == PrepareLulcForInvest \/ PrepareLulcForInvestRaises

(***************************************************************************)
(* data/download.py: download_file.  The file at a path is "absent", "old" *)
(* (there before the first call), "partial" (some of the response body) or *)
(* "complete" (the whole body).                                            *)
(***************************************************************************)
MaxCalls == 3

\* two paths in the directory data/ and one with no directory part, which
\* names a file of the working directory
Paths == {"data/a.zip", "data/b.zip", "c.zip"}

\* os.path.dirname(output_path) is not ''
HasDir(path) == path # "c.zip"

\* where a call can fail: os.makedirs, requests.get, raise_for_status,
\* open(output_path, 'wb'), or the loop over iter_content that writes the body
FailPoints == {"none", "makedirs", "request", "status", "open", "write"}

\* os.makedirs(os.path.dirname(output_path), exist_ok=True): os.makedirs('')
\* raises FileNotFoundError; creating a missing directory may fail
MakedirsRaises(disk, path, failAt) ==
    \/ ~HasDir(path)
    \/ ~disk.dir /\ failAt = "makedirs"

\* the file at output_path when the exception reaches the handler: open
\* created it and the loop wrote part of the body, or it was never created
FileAtFailure(failAt) == IF failAt = "write" THEN "partial" ELSE "absent"

\* a variant of RemovePartial that leaves the file in place
RemovePartial_Keep(file) == file

\* if os.path.exists(output_path): os.remove(output_path)
RemovePartial(file) == IF file # "absent" THEN "absent" ELSE file

download_file(disk, path, failAt) ==
    IF MakedirsRaises(disk, path, failAt)
    THEN [outcome |-> "raised", failedAt |-> "makedirs", requested |-> FALSE,
          disk |-> disk]
    ELSE LET made == [disk EXCEPT !.dir = TRUE]
         IN  IF made.files[path] # "absent"
             THEN [outcome |-> "returned", failedAt |-> "none",
                   requested |-> FALSE, disk |-> made]
             ELSE IF failAt \in {"none", "makedirs"}
             THEN [outcome |-> "returned", failedAt |-> "none",
                   requested |-> TRUE,
                   disk |-> [made EXCEPT !.files[path] = "complete"]]
             ELSE [outcome |-> "raised", failedAt |-> failAt,
                   requested |-> TRUE,
                   disk |-> [made EXCEPT
                       !.files[path] = RemovePartial(FileAtFailure(failAt))]]

NoLast ==
    [path |-> "none", outcome |-> "none", failedAt |-> "none",
     requested |-> FALSE, fileBefore |-> "absent", afterFailedDownload |-> FALSE]

DlIdle ==
    /\ dDisk = [dir |-> TRUE, files |-> [p \in Paths |-> "absent"]]
    /\ dFirst = [p \in Paths |-> "absent"]
    /\ dFailed = {}
    /\ dReq = 0
    /\ dCalls = 0
    /\ dLast = NoLast

\* a file in data/ can only be there when data/ exists
DlStart ==
    /\ dDisk \in [dir : BOOLEAN, files : [Paths -> {"absent", "old"}]]
    /\ \A p \in Paths : (HasDir(p) /\ dDisk.files[p] = "old") => dDisk.dir
    /\ dFirst = dDisk.files
    /\ dFailed = {}
    /\ dReq = 0
    /\ dCalls = 0
    /\ dLast = NoLast

DownloadFile ==
    /\ dCalls < MaxCalls
    /\ \E path \in Paths, failAt \in FailPoints :
          LET r == download_file(dDisk, path, failAt)
          IN  /\ dDisk' = r.disk
              /\ dReq' = IF r.requested THEN dReq + 1 ELSE dReq
              /\ dFailed' = IF r.outcome = "raised" /\ r.failedAt # "makedirs"
                            THEN dFailed \cup {path}
                            ELSE dFailed \ {path}
              /\ dLast' = [path |-> path, outcome |-> r.outcome,
                           failedAt |-> r.failedAt, requested |-> r.requested,
                           fileBefore |-> dDisk.files[path],
                           afterFailedDownload |-> path \in dFailed]
    /\ dCalls' = dCalls + 1
    /\ UNCHANGED <<dFirst, valVars, rasVars, errVars, inpVars, runVars,
                   extVars, admVars, plcVars, hdlVars, rpjVars, tblVars,
                   prpVars, cmpVars>>

DlNext == DownloadFile

(***************************************************************************)
(* models/carbon.py: prepare_carbon_inputs.  The disk holds the LULC       *)
(* raster (the set of values of band 1), the carbon pools CSV (its columns *)
(* and its lucode values) and possibly output_dir.                         *)
(***************************************************************************)
\* a variant of required_cols without its last entry
required_cols_NoDead == {"lucode", "c_above", "c_below", "c_soil"}

required_cols == {"lucode", "c_above", "c_below", "c_soil", "c_dead"}

\* a variant of InputMissing that checks the raster only
InputMissing_LulcOnly(disk) == ~disk.lulc

\* the two os.path.exists checks
InputMissing(disk) == ~disk.lulc \/ ~disk.csv

\* os.makedirs(output_dir), called when output_dir does not exist
MakeOutputDirRaises(disk) == ~disk.outdir /\ ~disk.outdirCreatable

\* rasterio.open(lulc_path) and src.read(1)
RasterReadRaises(disk) == ~disk.lulc \/ ~disk.rasterReadable

\* pd.read_csv(carbon_pools_csv)
CsvReadRaises(disk) == ~disk.csv \/ ~disk.csvReadable

missing_cols(disk) == required_cols \ disk.columns

missing_values(disk) == {val \in disk.values : val \notin disk.lucodes /\ val # 0}

Raised(exc, reads, disk) ==
    [outcome |-> "raised", exc |-> exc, reads |-> reads, warned |-> FALSE,
     args |-> [none |-> TRUE], disk |-> disk]

prepare_carbon_inputs(disk, lulc_path, carbon_pools_csv, output_dir) ==
    IF InputMissing(disk)
    THEN Raised("FileNotFoundError", {}, disk)
    ELSE IF MakeOutputDirRaises(disk)
    THEN Raised("OSError", {}, disk)
    ELSE LET made == [disk EXCEPT !.outdir = TRUE]
         IN  IF RasterReadRaises(made)
             THEN Raised(IF made.lulc THEN "RasterioIOError" ELSE "FileNotFoundError",
                         {lulc_path}, made)
             ELSE IF CsvReadRaises(made)
             THEN Raised(IF made.csv THEN "ParserError" ELSE "FileNotFoundError",
                         {lulc_path, carbon_pools_csv}, made)
             ELSE IF missing_cols(made) # {}
             THEN Raised("ValueError", {lulc_path, carbon_pools_csv}, made)
             ELSE [outcome |-> "returned", exc |-> NoExc,
                   reads |-> {lulc_path, carbon_pools_csv},
                   warned |-> missing_values(made) # {},
                   args |-> [lulc_cur_path |-> lulc_path,
                             carbon_pools_path |-> carbon_pools_csv,
                             workspace_dir |-> output_dir],
                   disk |-> made]

NoRes ==
    [outcome |-> "none", exc |-> NoExc, reads |-> {}, warned |-> FALSE,
     args |-> [none |-> TRUE], diskBefore |-> [none |-> TRUE]]

InpIdle ==
    /\ iDisk = [lulc |-> FALSE, csv |-> FALSE, outdir |-> FALSE,
                outdirCreatable |-> TRUE, rasterReadable |-> FALSE, csvReadable |-> FALSE,
                values |-> {}, columns |-> {}, lucodes |-> {}]
    /\ iArgs = [lulc_path |-> "lulc.tif", carbon_pools_csv |-> "carbon_pools.csv",
                output_dir |-> "workspace"]
    /\ iRes = NoRes

\* a file that is absent has no content; a table has lucode values only in
\* a lucode column; a raster has at least one pixel; outdirCreatable says
\* whether os.makedirs(output_dir) can succeed
InpStart ==
    /\ iDisk \in [lulc : BOOLEAN, csv : BOOLEAN, outdir : BOOLEAN,
                  outdirCreatable : BOOLEAN, rasterReadable : BOOLEAN, csvReadable : BOOLEAN,
                  values : SUBSET Classes, columns : SUBSET required_cols,
                  lucodes : SUBSET Classes]
    /\ iDisk.outdir => iDisk.outdirCreatable
    /\ iDisk.rasterReadable => iDisk.lulc
    /\ iDisk.csvReadable => iDisk.csv
    /\ iDisk.values # {} <=> iDisk.rasterReadable
    /\ ~iDisk.csvReadable => (iDisk.columns = {} /\ iDisk.lucodes = {})
    /\ "lucode" \notin iDisk.columns => iDisk.lucodes = {}
    /\ iArgs = [lulc_path |-> "lulc.tif", carbon_pools_csv |-> "carbon_pools.csv",
                output_dir |-> "workspace"]
    /\ iRes = NoRes

PrepareCarbonInputs ==
    /\ iRes.outcome = "none"
    /\ LET r == prepare_carbon_inputs(iDisk, iArgs.lulc_path,
                                      iArgs.carbon_pools_csv, iArgs.output_dir)
       IN  /\ iDisk' = r.disk
           /\ iRes' = [outcome |-> r.outcome, exc |-> r.exc, reads |-> r.reads,
                       warned |-> r.warned, args |-> r.args,
                       diskBefore |-> iDisk]
    /\ UNCHANGED <<iArgs, valVars, rasVars, errVars, dlVars, runVars, extVars,
                   admVars, plcVars, hdlVars, rpjVars, tblVars, prpVars,
                   cmpVars>>

InpNext == PrepareCarbonInputs

(***************************************************************************)
(* models/carbon.py: run_carbon_model and summarize_carbon_results.        *)
(* natcap.invest.carbon.execute is a black box: it raises or returns, and  *)
(* it may or may not write total_carbon.tif into workspace_dir.            *)
(***************************************************************************)
\* os.path.exists(path) is False
NoFile == [exists |-> FALSE]

\* src.res of an output raster: (width, height) of a pixel
ResVals == {<<1, 1>>, <<1, 2>>, <<2, 2>>}

\* total_carbon.tif: band 1 and the pixel size
CarbonRasters ==
    {[exists |-> TRUE, pixels |-> s, res |-> r] :
        s \in SeqsUpTo(0..MaxCarbon, NPixels) \ {<<>>}, r \in ResVals}

\* carbon_data[carbon_data > 0]
ValidData(pixels) == SelectSeq(pixels, LAMBDA v : v > 0)

SeqRange(s) == {s[i] : i \in 1..Len(s)}

\* np.min and np.max of a non-empty array
NpMin(s) == CHOOSE v \in SeqRange(s) : \A w \in SeqRange(s) : v <= w

NpMax(s) == CHOOSE v \in SeqRange(s) : \A w \in SeqRange(s) : v >= w

Count(s, v) == Cardinality({i \in 1..Len(s) : s[i] = v})

Sorted(s) ==
    CHOOSE t \in [1..Len(s) -> SeqRange(s)] :
        /\ \A i \in 1..(Len(s) - 1) : t[i] <= t[i + 1]
        /\ \A v \in SeqRange(s) : Count(t, v) = Count(s, v)

\* np.median of a non-empty array: the middle value, or the mean of the two
\* middle values
NpMedian(s) ==
    LET t == Sorted(s)
        n == Len(s)
    IN  IF n % 2 = 1 THEN FromInt(t[(n + 1) \div 2])
        ELSE Rat(t[n \div 2] + t[n \div 2 + 1], 2)

HectareM2 == 10000

\* the body of the with block: np.min raises ValueError for an empty
\* valid_data; the f-string of the log line formats
\* summary.get('area_ha', 'N/A') with :.2f, which raises ValueError for the
\* string 'N/A' that stands in when the pixels are not square
Summarized(file) ==
    LET valid_data == ValidData(file.pixels)
    IN  IF valid_data = <<>>
        THEN [outcome |-> "raised", exc |-> "ValueError"]
        ELSE IF file.res[1] # file.res[2]
        THEN [outcome |-> "raised", exc |-> "ValueError"]
        ELSE [outcome |-> "returned",
              summary |->
                [mean_carbon   |-> NpMean(valid_data),
                 median_carbon |-> NpMedian(valid_data),
                 min_carbon    |-> NpMin(valid_data),
                 max_carbon    |-> NpMax(valid_data),
                 total_carbon  |-> SeqSum(valid_data),
                 pixel_count   |-> Len(valid_data),
                 pixel_size    |-> file.res[1] * file.res[2],
                 area_ha       |-> Rat(Len(valid_data) * file.res[1] * file.res[2],
                                       HectareM2)]]

\* a variant of summarize_carbon_results that returns an empty summary when
\* total_carbon.tif is absent
summarize_carbon_results_Empty(file) ==
    IF file = NoFile
    THEN [outcome |-> "returned", summary |-> [pixel_count |-> 0]]
    ELSE Summarized(file)

summarize_carbon_results(file) ==
    IF file = NoFile
    THEN [outcome |-> "raised", exc |-> "FileNotFoundError"]
    ELSE Summarized(file)

NoResult == [model_results |-> "none"]

RunIdle ==
    /\ mWork = NoFile
    /\ mpc = "idle"
    /\ mExc = NoExc
    /\ mRes = NoResult
    /\ mTrace = <<>>

\* the workspace may hold the output of an earlier run
RunStart ==
    /\ mWork \in {NoFile} \cup CarbonRasters
    /\ mpc = "start"
    /\ mExc = NoExc
    /\ mRes = NoResult
    /\ mTrace = <<>>

\* natcap.invest.carbon.execute(args) returns (None); it has written
\* total_carbon.tif or has left the workspace as it was
ExecuteReturns ==
    /\ mpc = "start"
    /\ mWork' \in {mWork} \cup CarbonRasters
    /\ mpc' = "executed"
    /\ mTrace' = Append(mTrace, "execute_returned")
    /\ UNCHANGED <<mExc, mRes, valVars, rasVars, errVars, dlVars, inpVars,
                   extVars, admVars, plcVars, hdlVars, rpjVars, tblVars,
                   prpVars, cmpVars>>

\* execute raises: the handler logs the exception and raises it again
ExecuteRaises ==
    /\ mpc = "start"
    /\ mWork' \in {mWork} \cup CarbonRasters
    /\ mpc' = "raised"
    /\ mExc' \in ExcKinds
    /\ mTrace' = Append(mTrace, "execute_raised")
    /\ UNCHANGED <<mRes, valVars, rasVars, errVars, dlVars, inpVars, extVars,
                   admVars, plcVars, hdlVars, rpjVars, tblVars, prpVars,
                   cmpVars>>

\* results_summary = summarize_carbon_results(args['workspace_dir']) and the
\* return statement; an exception of the summary propagates
SummarizeAndReturn ==
    /\ mpc = "executed"
    /\ LET r == summarize_carbon_results(mWork)
       IN  /\ mTrace' = Append(mTrace, "summarize")
           /\ IF r.outcome = "raised"
              THEN /\ mpc' = "raised"
                   /\ mExc' = r.exc
                   /\ mRes' = mRes
              ELSE /\ mpc' = "returned"
                   /\ mExc' = mExc
                   /\ mRes' = [model_results |-> "None", summary |-> r.summary]
    /\ UNCHANGED <<mWork, valVars, rasVars, errVars, dlVars, inpVars, extVars,
                   admVars, plcVars, hdlVars, rpjVars, tblVars, prpVars,
                   cmpVars>>

RunNext == ExecuteReturns \/ ExecuteRaises \/ SummarizeAndReturn

(***************************************************************************)
(* data/preprocess.py: extract_invest_results.  Each model has a primary   *)
(* and a secondary output raster; the function copies those that exist.    *)
(***************************************************************************)
ModelNames == {"carbon", "habitat_quality", "sdr", "other"}

\* the key of the returned dict and the file name in output_dir, for the
\* primary and the secondary raster of a model
PrimaryKey(model_name) ==
    CASE model_name = "carbon" -> "total_carbon"
      [] model_name = "habitat_quality" -> "habitat_quality"
      [] model_name = "sdr" -> "sediment_export"

SecondaryKey(model_name) ==
    CASE model_name = "carbon" -> "npv"
      [] model_name = "habitat_quality" -> "degradation"
      [] model_name = "sdr" -> "sediment_retention"

PrimaryOut(model_name) ==
    CASE model_name = "carbon" -> "total_carbon.tif"
      [] model_name = "habitat_quality" -> "habitat_quality.tif"
      [] model_name = "sdr" -> "sediment_export.tif"

SecondaryOut(model_name) ==
    CASE model_name = "carbon" -> "net_present_value.tif"
      [] model_name = "habitat_quality" -> "habitat_degradation.tif"
      [] model_name = "sdr" -> "sediment_retention.tif"

SummaryOut == "carbon_summary.json"

OutNames ==
    {"total_carbon.tif", "net_present_value.tif", "carbon_summary.json",
     "habitat_quality.tif", "habitat_degradation.tif",
     "sediment_export.tif", "sediment_retention.tif"}

RECURSIVE SeqSumSq(_)
SeqSumSq(s) == IF s = <<>> THEN 0 ELSE Head(s) * Head(s) + SeqSumSq(Tail(s))

\* np.std(valid_data) is the square root of this population variance
NpVar(s) ==
    Rat(Len(s) * SeqSumSq(s) - SeqSum(s) * SeqSum(s), Len(s) * Len(s))

\* the summary dict of the carbon model, saved as JSON
CarbonSummary(valid_data) ==
    [mean_carbon  |-> NpMean(valid_data),
     total_carbon |-> SeqSum(valid_data),
     min_carbon   |-> NpMin(valid_data),
     max_carbon   |-> NpMax(valid_data),
     std_carbon_squared |-> NpVar(valid_data)]

\* `import shutil` stands inside `if os.path.exists(<primary raster>)`, so
\* shutil is a local name of the function that is bound only when that branch
\* ran
ShutilBound(work) == work.primary # NoFile

ExtRaised(exc, out) ==
    [outcome |-> "raised", exc |-> exc, results |-> <<>>, out |-> out]

extract_invest_results(work, out, model_name, creatable) ==
    IF ~creatable
    THEN ExtRaised("OSError", out)
    ELSE IF model_name \notin {"carbon", "habitat_quality", "sdr"}
    THEN [outcome |-> "returned", exc |-> NoExc, results |-> <<>>, out |-> out]
    ELSE
    LET pk == PrimaryKey(model_name)
        sk == SecondaryKey(model_name)
        out1 == IF work.primary # NoFile
                THEN [out EXCEPT ![PrimaryOut(model_name)] = work.primary]
                ELSE out
        keys1 == IF work.primary # NoFile THEN {pk} ELSE {}
    IN  IF work.secondary # NoFile /\ ~ShutilBound(work)
        THEN ExtRaised("UnboundLocalError", out1)
        ELSE
        LET out2 == IF work.secondary # NoFile
                    THEN [out1 EXCEPT ![SecondaryOut(model_name)] = work.secondary]
                    ELSE out1
            keys2 == IF work.secondary # NoFile THEN keys1 \cup {sk} ELSE keys1
            PathOf(k) == IF k = pk THEN PrimaryOut(model_name)
                         ELSE IF k = sk THEN SecondaryOut(model_name)
                         ELSE SummaryOut
        IN  IF model_name = "carbon" /\ "total_carbon" \in keys2
            THEN LET valid_data == ValidData(out2["total_carbon.tif"].pixels)
                 IN  IF valid_data = <<>>
                     THEN ExtRaised("ValueError", out2)
                     ELSE [outcome |-> "returned", exc |-> NoExc,
                           results |-> [k \in keys2 \cup {"summary"} |-> PathOf(k)],
                           out |-> [out2 EXCEPT
                                      ![SummaryOut] = CarbonSummary(valid_data)]]
            ELSE [outcome |-> "returned", exc |-> NoExc,
                  results |-> [k \in keys2 |-> PathOf(k)], out |-> out2]

NoExtract == [outcome |-> "none"]

ExtIdle ==
    /\ xWork = [primary |-> NoFile, secondary |-> NoFile]
    /\ xCall = NoCall
    /\ xOut = [f \in OutNames |-> NoFile]
    /\ xRes = NoExtract

\* the workspace holds any of the two rasters; output_dir is empty when the
\* call is made, and creatable says whether os.makedirs can succeed
ExtStart ==
    /\ xWork \in [primary : {NoFile} \cup CarbonRasters,
                  secondary : {NoFile, [exists |-> TRUE]}]
    /\ xCall \in [op : {"extract_invest_results"}, model_name : ModelNames,
                  creatable : BOOLEAN]
    /\ xOut = [f \in OutNames |-> NoFile]
    /\ xRes = NoExtract

ExtractInvestResults ==
    /\ xRes = NoExtract
    /\ xCall # NoCall
    /\ LET r == extract_invest_results(xWork, xOut, xCall.model_name,
                                       xCall.creatable)
       IN  /\ xOut' = r.out
           /\ xRes' = [outcome |-> r.outcome, exc |-> r.exc,
                       results |-> r.results]
    /\ UNCHANGED <<xWork, xCall, valVars, rasVars, errVars, dlVars, inpVars,
                   runVars, admVars, plcVars, hdlVars, rpjVars, tblVars,
                   prpVars, cmpVars>>

ExtNext == ExtractInvestResults

(***************************************************************************)
(* data/download.py: unzip_file and download_admin_boundaries.  The zip in *)
(* output_dir is "absent", "good" or "corrupt"; the extraction directory   *)
(* is the set of admin levels whose shapefile it holds.                    *)
(***************************************************************************)
MaxLevel == 1

AdminLevels == 0..MaxLevel

ZipPath == "data/gadm41_IDN_shp.zip"

\* where a call of download_admin_boundaries can fail: in download_file, or
\* in zip_ref.extractall
AdmFailPoints == FailPoints \cup {"extractall"}

\* zipfile.ZipFile(zip_path) raises BadZipFile for a file that is no zip
\* archive; extractall adds the files of the archive to extract_dir
unzip_file(zip, archive, extract_dir, failAt) ==
    IF zip # "good"
    THEN [outcome |-> "raised", exc |-> "BadZipFile", extract_dir |-> extract_dir]
    ELSE IF failAt = "extractall"
    THEN [outcome |-> "raised", exc |-> "OSError", extract_dir |-> extract_dir]
    ELSE [outcome |-> "returned", exc |-> NoExc,
          extract_dir |-> extract_dir \cup archive]

\* the exception download_file raises at each of its failure points
DownloadExc(failedAt) ==
    CASE failedAt = "request" -> "ConnectionError"
      [] failedAt = "status" -> "HTTPError"
      [] OTHER -> "OSError"

\* the file download_file sees at zip_path, and the zip it leaves there
FileOfZip(zip) == IF zip = "absent" THEN "absent" ELSE "old"

ZipOfFile(zip, file) ==
    CASE file = "complete" -> "good"
      [] file = "absent" -> "absent"
      [] file = "partial" -> "corrupt"
      [] OTHER -> zip

\* a variant of ShapefileMissing that never finds the shapefile missing
ShapefileMissing_Never(extract_dir, admin_level) == FALSE

\* not os.path.exists(shapefile_path)
ShapefileMissing(extract_dir, admin_level) == admin_level \notin extract_dir

AdmResult(outcome, exc, requested, unzipped, disk) ==
    [outcome |-> outcome, exc |-> exc, requested |-> requested,
     unzipped |-> unzipped, disk |-> disk]

download_admin_boundaries(disk, archive, admin_level, failAt) ==
    IF ~disk.dir /\ failAt = "makedirs"
    THEN AdmResult("raised", "OSError", FALSE, FALSE, disk)
    ELSE
    LET made == [disk EXCEPT !.dir = TRUE]
        d == download_file([dir |-> TRUE,
                            files |-> [p \in {ZipPath} |-> FileOfZip(made.zip)]],
                           ZipPath,
                           IF failAt \in FailPoints THEN failAt ELSE "none")
        got == [made EXCEPT !.zip = ZipOfFile(made.zip, d.disk.files[ZipPath])]
    IN  IF d.outcome = "raised"
        THEN AdmResult("raised", DownloadExc(d.failedAt), d.requested, FALSE, got)
        ELSE
        LET u == unzip_file(got.zip, archive, got.extracted, failAt)
            done == [got EXCEPT !.extracted = u.extract_dir]
        IN  IF u.outcome = "raised"
            THEN AdmResult("raised", u.exc, d.requested, FALSE, done)
            ELSE IF ShapefileMissing(done.extracted, admin_level)
            THEN AdmResult("raised", "FileNotFoundError", d.requested, TRUE, done)
            ELSE AdmResult("returned", NoExc, d.requested, TRUE, done)

NoAdmCall ==
    [outcome |-> "none", exc |-> NoExc, requested |-> FALSE,
     unzipped |-> FALSE, admin_level |-> 0, failAt |-> "none",
     zipBefore |-> "absent", shapeBefore |-> FALSE]

AdmIdle ==
    /\ bDisk = [dir |-> FALSE, zip |-> "absent", extracted |-> {}]
    /\ bArchive = {}
    /\ bCalls = 0
    /\ bLast = NoAdmCall

\* output_dir may hold a zip and extracted files of an earlier session; the
\* zip may be a file that is no valid archive
AdmStart ==
    /\ bDisk \in [dir : BOOLEAN, zip : {"absent", "good", "corrupt"},
                  extracted : SUBSET AdminLevels]
    /\ ~bDisk.dir => (bDisk.zip = "absent" /\ bDisk.extracted = {})
    /\ bArchive \in SUBSET AdminLevels
    /\ bCalls = 0
    /\ bLast = NoAdmCall

DownloadAdminBoundaries ==
    /\ bCalls < MaxCalls
    /\ \E admin_level \in AdminLevels, failAt \in AdmFailPoints :
          LET r == download_admin_boundaries(bDisk, bArchive, admin_level, failAt)
          IN  /\ bDisk' = r.disk
              /\ bLast' = [outcome |-> r.outcome, exc |-> r.exc,
                           requested |-> r.requested, unzipped |-> r.unzipped,
                           admin_level |-> admin_level, failAt |-> failAt,
                           zipBefore |-> bDisk.zip,
                           shapeBefore |-> admin_level \in bDisk.extracted]
    /\ bCalls' = bCalls + 1
    /\ UNCHANGED <<bArchive, valVars, rasVars, errVars, dlVars, inpVars,
                   runVars, extVars, plcVars, hdlVars, rpjVars, tblVars,
                   prpVars, cmpVars>>

AdmNext == DownloadAdminBoundaries

(***************************************************************************)
(* data/download.py: the placeholder downloaders download_elevation_data,  *)
(* download_landcover_data, download_mining_data and                       *)
(* download_biodiversity_data.  A file is "absent", "old" (content of an   *)
(* earlier session), "empty" (opened, nothing written) or the placeholder  *)
(* text a call writes.                                                     *)
(***************************************************************************)
DefaultResolution == 30

DefaultYear == 2020

Resolutions == {DefaultResolution, 90}

Years == {DefaultYear, 2021}

Regions == {"papua", "java"}

PlaceholderCalls ==
    {[op |-> "download_elevation_data", arg |-> r] : r \in Resolutions}
    \cup {[op |-> "download_landcover_data", arg |-> y] : y \in Years}
    \cup {[op |-> "download_mining_data", arg |-> 0]}
    \cup {[op |-> "download_biodiversity_data", arg |-> 0, region |-> g] :
            g \in Regions}

\* the path a call writes and returns, below output_dir; year and region
\* are part of the file name, bounds and resolution are not
PlaceholderPath(call) ==
    CASE call.op = "download_elevation_data" -> <<"srtm_dem.tif">>
      [] call.op = "download_landcover_data" ->
            <<"indonesia_landcover_", call.arg, ".tif">>
      [] call.op = "download_mining_data" ->
            <<"indonesia_mining_concessions.shp">>
      [] call.op = "download_biodiversity_data" ->
            <<call.region, "_biodiversity_occurrences.csv">>

PlaceholderPaths == {PlaceholderPath(c) : c \in PlaceholderCalls}

\* the text f.write puts into a new file
PlaceholderText(call) ==
    CASE call.op = "download_elevation_data" ->
            <<"Placeholder for SRTM DEM data">>
      [] call.op = "download_landcover_data" ->
            <<"Placeholder for Indonesia land cover data ", call.arg>>
      [] call.op = "download_mining_data" ->
            <<"Placeholder for Indonesia mining concession data">>
      [] call.op = "download_biodiversity_data" ->
            <<"Placeholder for ", call.region, " biodiversity occurrence data">>

Absent == <<"absent">>

\* a variant of KeepExisting that writes the placeholder over an existing file
KeepExisting_Overwrite(file, text) == text

\* if os.path.exists(path): return path
KeepExisting(file, text) == IF file # Absent THEN file ELSE text

\* one placeholder call: open(path, 'w') raises FileNotFoundError when
\* output_dir does not exist (the functions do not create it); a failing
\* f.write leaves the empty file that open created
placeholder_download(disk, call, failAt) ==
    LET path == PlaceholderPath(call)
        file == disk.files[path]
        kept == KeepExisting(file, PlaceholderText(call))
    IN  IF kept = file /\ file # Absent
        THEN [outcome |-> "returned", exc |-> NoExc, wrote |-> FALSE, disk |-> disk]
        ELSE IF ~disk.dir
        THEN [outcome |-> "raised", exc |-> "FileNotFoundError", wrote |-> FALSE,
              disk |-> disk]
        ELSE IF failAt = "write"
        THEN [outcome |-> "raised", exc |-> "OSError", wrote |-> TRUE,
              disk |-> [disk EXCEPT !.files[path] = <<"empty">>]]
        ELSE [outcome |-> "returned", exc |-> NoExc, wrote |-> TRUE,
              disk |-> [disk EXCEPT !.files[path] = kept]]

NoPlcCall == [outcome |-> "none"]

PlcIdle ==
    /\ pDisk = [dir |-> FALSE, files |-> [p \in PlaceholderPaths |-> Absent]]
    /\ pFirst = [p \in PlaceholderPaths |-> Absent]
    /\ pCalls = 0
    /\ pLast = NoPlcCall

\* output_dir may hold files of an earlier session
PlcStart ==
    /\ pDisk \in [dir : BOOLEAN,
                  files : [PlaceholderPaths -> {Absent, <<"old">>}]]
    /\ ~pDisk.dir => \A p \in PlaceholderPaths : pDisk.files[p] = Absent
    /\ pFirst = [p \in PlaceholderPaths |-> Absent]
    /\ pCalls = 0
    /\ pLast = NoPlcCall

PlaceholderDownload ==
    /\ pCalls < MaxCalls
    /\ \E call \in PlaceholderCalls, failAt \in {"none", "write"} :
          LET r == placeholder_download(pDisk, call, failAt)
              path == PlaceholderPath(call)
          IN  /\ pDisk' = r.disk
              /\ pFirst' = IF r.outcome = "returned" /\ pFirst[path] = Absent
                           THEN [pFirst EXCEPT ![path] = r.disk.files[path]]
                           ELSE pFirst
              /\ pLast' = [outcome |-> r.outcome, exc |-> r.exc, call |-> call,
                           path |-> path, wrote |-> r.wrote,
                           fileBefore |-> pDisk.files[path],
                           repeated |-> pFirst[path] # Absent]
    /\ pCalls' = pCalls + 1
    /\ UNCHANGED <<valVars, rasVars, errVars, dlVars, inpVars, runVars,
                   extVars, admVars, hdlVars, rpjVars, tblVars, prpVars,
                   cmpVars>>

PlcNext == PlaceholderDownload

(***************************************************************************)
(* File, raster and network handles.  A step of an operation may open a    *)
(* handle; it runs under the with blocks that enclose it, whose handles    *)
(* are closed when the step raises; completing a step closes the handles   *)
(* whose with block ends after it.  A raising open leaves no handle.       *)
(***************************************************************************)
HStep(name, opens, under, closes) ==
    [name |-> name, opens |-> opens, under |-> under, closes |-> closes]

RECURSIVE Repeat(_, _)
Repeat(steps, n) == IF n = 0 THEN <<>> ELSE steps \o Repeat(steps, n - 1)

\* download.py
\* requests.get(url, stream=True) is not in a with block and response.close()
\* is never called: the response is released only when iter_content has
\* consumed the whole body
download_file_handles ==
    <<HStep("requests.get", {"response"}, {}, {}),
      HStep("raise_for_status", {}, {}, {}),
      HStep("open_output", {"f"}, {}, {}),
      HStep("iter_content_write", {}, {"f"}, {"f", "response"})>>

unzip_file_handles ==
    <<HStep("ZipFile", {"zip_ref"}, {}, {}),
      HStep("extractall", {}, {"zip_ref"}, {"zip_ref"})>>

placeholder_handles ==
    <<HStep("open", {"f"}, {}, {}),
      HStep("write", {}, {"f"}, {"f"})>>

reproject_raster_handles ==
    <<HStep("open_src", {"src"}, {}, {}),
      HStep("calculate_default_transform", {}, {"src"}, {}),
      HStep("open_dst", {"dst"}, {"src"}, {}),
      HStep("reproject_bands", {}, {"src", "dst"}, {"src", "dst"})>>

clip_raster_to_region_handles(reproject_to) ==
    <<HStep("open_src", {"src"}, {}, {}),
      HStep("mask", {}, {"src"}, {}),
      HStep("open_dest", {"dest"}, {"src"}, {}),
      HStep("write", {}, {"src", "dest"}, {"src", "dest"})>>
    \o (IF reproject_to THEN reproject_raster_handles ELSE <<>>)

\* preprocess.py
prepare_lulc_for_invest_handles ==
    <<HStep("open_src", {"src"}, {}, {}),
      HStep("read_and_reclassify", {}, {"src"}, {}),
      HStep("open_dest", {"dest"}, {"src"}, {}),
      HStep("write", {}, {"src", "dest"}, {"src", "dest"})>>

create_lulc_attribute_table_handles ==
    <<HStep("open_src", {"src"}, {}, {}),
      HStep("read_unique", {}, {"src"}, {"src"}),
      HStep("to_csv", {}, {}, {})>>

create_scenario_lulc_handles(n_areas) ==
    <<HStep("open_src", {"src"}, {}, {}),
      HStep("read", {}, {"src"}, {})>>
    \o Repeat(<<HStep("mask", {}, {"src"}, {})>>, n_areas)
    \o <<HStep("open_dest", {"dest"}, {"src"}, {}),
         HStep("write", {}, {"src", "dest"}, {"src", "dest"})>>

extract_invest_results_handles ==
    <<HStep("copy2", {}, {}, {}),
      HStep("open_src", {"src"}, {}, {}),
      HStep("read_and_summarize", {}, {"src"}, {}),
      HStep("open_json", {"f"}, {"src"}, {}),
      HStep("json.dump", {}, {"src", "f"}, {"src", "f"})>>

\* carbon.py
prepare_carbon_inputs_handles ==
    <<HStep("open_src", {"src"}, {}, {}),
      HStep("read", {}, {"src"}, {"src"}),
      HStep("read_csv", {}, {}, {})>>

summarize_carbon_results_handles ==
    <<HStep("open_src", {"src"}, {}, {}),
      HStep("read_and_summarize", {}, {"src"}, {"src"})>>

extract_carbon_for_region_handles ==
    <<HStep("open_src", {"src"}, {}, {}),
      HStep("mask_and_summarize", {}, {"src"}, {"src"})>>

\* maps.py
create_carbon_map_handles ==
    <<HStep("open_src", {"src"}, {}, {}),
      HStep("read_and_show", {}, {"src"}, {"src"}),
      HStep("decorate_and_savefig", {}, {}, {})>>

create_comparison_map_handles ==
    <<HStep("open_baseline", {"baseline_src"}, {}, {}),
      HStep("read_baseline", {}, {"baseline_src"}, {"baseline_src"}),
      HStep("open_scenario", {"scenario_src"}, {}, {}),
      HStep("read_scenario", {}, {"scenario_src"}, {"scenario_src"}),
      HStep("percentiles", {}, {}, {}),
      HStep("NamedTemporaryFile", {"tmp"}, {}, {}),
      HStep("tmp.name", {}, {"tmp"}, {"tmp"}),
      HStep("open_dst", {"dst"}, {}, {}),
      HStep("write", {}, {"dst"}, {"dst"}),
      HStep("open_src", {"src"}, {}, {}),
      HStep("show", {}, {"src"}, {"src"}),
      HStep("remove_and_savefig", {}, {}, {})>>

create_multi_panel_map_handles(n_panels) ==
    Repeat(<<HStep("open_src", {"src"}, {}, {}),
             HStep("read_and_show", {}, {"src"}, {"src"})>>, n_panels)
    \o <<HStep("savefig", {}, {}, {})>>

HandleOps ==
    {"download_file", "unzip_file", "download_elevation_data",
     "download_landcover_data", "download_mining_data",
     "download_biodiversity_data", "clip_raster_to_region", "reproject_raster",
     "prepare_lulc_for_invest", "create_lulc_attribute_table",
     "create_scenario_lulc", "extract_invest_results", "prepare_carbon_inputs",
     "summarize_carbon_results", "extract_carbon_for_region",
     "create_carbon_map", "create_comparison_map", "create_multi_panel_map"}

\* n is the number of change areas or panels, flag is reproject_to
HandleCalls ==
    {c \in [op : HandleOps, n : 0..MaxAreas, flag : BOOLEAN] :
        /\ c.n # 0 => c.op \in {"create_scenario_lulc", "create_multi_panel_map"}
        /\ c.flag => c.op = "clip_raster_to_region"}

HandlesOf(call) ==
    CASE call.op = "download_file" -> download_file_handles
      [] call.op = "unzip_file" -> unzip_file_handles
      [] call.op \in {"download_elevation_data", "download_landcover_data",
                      "download_mining_data", "download_biodiversity_data"} ->
            placeholder_handles
      [] call.op = "clip_raster_to_region" ->
            clip_raster_to_region_handles(call.flag)
      [] call.op = "reproject_raster" -> reproject_raster_handles
      [] call.op = "prepare_lulc_for_invest" -> prepare_lulc_for_invest_handles
      [] call.op = "create_lulc_attribute_table" ->
            create_lulc_attribute_table_handles
      [] call.op = "create_scenario_lulc" -> create_scenario_lulc_handles(call.n)
      [] call.op = "extract_invest_results" -> extract_invest_results_handles
      [] call.op = "prepare_carbon_inputs" -> prepare_carbon_inputs_handles
      [] call.op = "summarize_carbon_results" -> summarize_carbon_results_handles
      [] call.op = "extract_carbon_for_region" -> extract_carbon_for_region_handles
      [] call.op = "create_carbon_map" -> create_carbon_map_handles
      [] call.op = "create_comparison_map" -> create_comparison_map_handles
      [] call.op = "create_multi_panel_map" ->
            create_multi_panel_map_handles(call.n)

HdlIdle ==
    /\ hCall = NoCall
    /\ hpc = 0
    /\ hStatus = "idle"
    /\ hOpen = {}

\* the caller makes a call
HdlStart ==
    /\ hCall \in HandleCalls
    /\ hpc = 1
    /\ hStatus = "running"
    /\ hOpen = {}

\* the next step completes: it has opened its handle, and the with blocks
\* that end after it have closed theirs; after the last step the call returns
HStepOk ==
    /\ hStatus = "running"
    /\ LET step == HandlesOf(hCall)[hpc]
       IN  hOpen' = (hOpen \cup step.opens) \ step.closes
    /\ hpc' = hpc + 1
    /\ hStatus' = IF hpc = Len(HandlesOf(hCall)) THEN "returned" ELSE "running"
    /\ UNCHANGED <<hCall, valVars, rasVars, errVars, dlVars, inpVars, runVars,
                   extVars, admVars, plcVars, rpjVars, tblVars, prpVars,
                   cmpVars>>

\* the next step raises: the with blocks around it close their handles and
\* the exception leaves the operation (every handler re-raises)
HStepRaises ==
    /\ hStatus = "running"
    /\ LET step == HandlesOf(hCall)[hpc]
       IN  hOpen' = hOpen \ step.under
    /\ hStatus' = "raised"
    /\ UNCHANGED <<hCall, hpc, valVars, rasVars, errVars, dlVars, inpVars,
                   runVars, extVars, admVars, plcVars, rpjVars, tblVars,
                   prpVars, cmpVars>>

HdlNext == HStepOk \/ HStepRaises

(***************************************************************************)
(* data/download.py: clip_raster_to_region and reproject_raster.  A raster *)
(* is its CRS, whether it was clipped, and the data of its bands; GDAL     *)
(* reads a band from the file when the band is used, not when the dataset  *)
(* is opened.                                                              *)
(***************************************************************************)
MaxBands == 2

RasterPaths == {"in.tif", "out.tif"}

SrcCrs == "EPSG:4326"

DstCrs == "EPSG:32753"

BandData == 1..MaxClass

\* what a read returns for a band whose data is no longer in the file
LostBand == 0

StoredRasters ==
    {[exists |-> TRUE, crs |-> SrcCrs, clipped |-> FALSE, bands |-> b] :
        b \in SeqsUpTo(BandData, MaxBands) \ {<<>>}}

ReprojectCalls ==
    [op : {"reproject_raster"}, input_path : RasterPaths,
     output_path : RasterPaths, reproject_to : {TRUE}]

ClipCalls ==
    [op : {"clip_raster_to_region"}, input_path : RasterPaths,
     output_path : RasterPaths, reproject_to : BOOLEAN]

NoRun ==
    [input_path |-> "none", output_path |-> "none", src |-> NoFile, band |-> 0,
     view |-> "none", clobbered |-> FALSE]

RpjIdle ==
    /\ jFiles0 = [p \in RasterPaths |-> NoFile]
    /\ jFiles = [p \in RasterPaths |-> NoFile]
    /\ jCall = NoCall
    /\ jpc = "idle"
    /\ jRun = NoRun

RpjStart ==
    /\ jFiles0 \in [RasterPaths -> {NoFile} \cup StoredRasters]
    /\ jFiles = jFiles0
    /\ jCall \in ReprojectCalls \cup ClipCalls
    /\ jpc = IF jCall.op = "reproject_raster" THEN "reproject" ELSE "clip"
    /\ jRun = [NoRun EXCEPT !.input_path = jCall.input_path,
                            !.output_path = jCall.output_path]

\* mask(src, geoms, crop=True) reads every band into out_image
ClipOf(raster) == [raster EXCEPT !.clipped = TRUE]

\* clip_raster_to_region up to the reprojection: the source is read into
\* memory by mask, then output_path is written; with reproject_to set,
\* reproject_raster(output_path, output_path, reproject_to) follows
ClipAndWrite ==
    /\ jpc = "clip"
    /\ IF jFiles[jCall.input_path] = NoFile
       THEN /\ jpc' = "raised"
            /\ UNCHANGED <<jFiles, jRun, tblVars, prpVars, cmpVars>>
       ELSE /\ jFiles' = [jFiles EXCEPT ![jCall.output_path] =
                                           ClipOf(jFiles[jCall.input_path])]
            /\ jpc' = IF jCall.reproject_to THEN "reproject" ELSE "returned"
            /\ jRun' = [jRun EXCEPT !.input_path = jCall.output_path,
                                    !.output_path = jCall.output_path]
    /\ UNCHANGED <<jFiles0, jCall, valVars, rasVars, errVars, dlVars, inpVars,
                   runVars, extVars, admVars, plcVars, hdlVars, tblVars,
                   prpVars, cmpVars>>

\* with rasterio.open(input_path) as src: the header is read, the bands are not
ReprojectOpenSrc ==
    /\ jpc = "reproject"
    /\ IF jFiles[jRun.input_path] = NoFile
       THEN /\ jpc' = "raised"
            /\ jRun' = jRun
       ELSE /\ jpc' = "src_open"
            /\ jRun' = [jRun EXCEPT !.src = jFiles[jRun.input_path]]
    /\ UNCHANGED <<jFiles0, jFiles, jCall, valVars, rasVars, errVars, dlVars,
                   inpVars, runVars, extVars, admVars, plcVars, hdlVars,
                   tblVars, prpVars, cmpVars>>

\* with rasterio.open(output_path, 'w', **meta) as dst: the file at
\* output_path is replaced by a new, empty dataset.  When output_path is the
\* file src reads from, what src reads afterwards depends on the platform and
\* the GDAL build: the old data (the old file was unlinked and src keeps it
\* open) or nothing (the file was truncated in place)
ReprojectOpenDst ==
    /\ jpc = "src_open"
    /\ jFiles' = [jFiles EXCEPT ![jRun.output_path] =
                     [exists |-> TRUE, crs |-> DstCrs,
                      clipped |-> jRun.src.clipped, bands |-> <<>>]]
    /\ \E view \in {"intact", "truncated"} :
          /\ (jRun.input_path # jRun.output_path) => view = "intact"
          /\ jRun' = [jRun EXCEPT
                        !.view = view, !.band = 1,
                        !.clobbered = (jRun.input_path = jRun.output_path
                                       /\ Len(jRun.src.bands) > 0)]
    /\ jpc' = "bands"
    /\ UNCHANGED <<jFiles0, jCall, valVars, rasVars, errVars, dlVars, inpVars,
                   runVars, extVars, admVars, plcVars, hdlVars, tblVars,
                   prpVars, cmpVars>>

\* opening output_path for writing fails because src holds the same file open
\* (a platform that locks open files); the handler logs and re-raises
ReprojectOpenDstRaises ==
    /\ jpc = "src_open"
    /\ jRun.input_path = jRun.output_path
    /\ jpc' = "raised"
    /\ UNCHANGED <<jFiles0, jFiles, jCall, jRun, valVars, rasVars, errVars,
                   dlVars, inpVars, runVars, extVars, admVars, plcVars, hdlVars,
                   tblVars, prpVars, cmpVars>>

\* reproject(source=rasterio.band(src, i), destination=rasterio.band(dst, i))
ReprojectBand ==
    /\ jpc = "bands"
    /\ jRun.band <= Len(jRun.src.bands)
    /\ LET data == IF jRun.view = "intact" THEN jRun.src.bands[jRun.band]
                   ELSE LostBand
       IN  jFiles' = [jFiles EXCEPT ![jRun.output_path].bands = Append(@, data)]
    /\ jRun' = [jRun EXCEPT !.band = @ + 1]
    /\ UNCHANGED <<jFiles0, jCall, jpc, valVars, rasVars, errVars, dlVars,
                   inpVars, runVars, extVars, admVars, plcVars, hdlVars,
                   tblVars, prpVars, cmpVars>>

\* the loop is over, both with blocks exit, the path is returned
ReprojectReturn ==
    /\ jpc = "bands"
    /\ jRun.band > Len(jRun.src.bands)
    /\ jpc' = "returned"
    /\ UNCHANGED <<jFiles0, jFiles, jCall, jRun, valVars, rasVars, errVars,
                   dlVars, inpVars, runVars, extVars, admVars, plcVars, hdlVars,
                   tblVars, prpVars, cmpVars>>

RpjNext ==
    \/ ClipAndWrite
    \/ ReprojectOpenSrc
    \/ ReprojectOpenDst
    \/ ReprojectOpenDstRaises
    \/ ReprojectBand
    \/ ReprojectReturn

(***************************************************************************)
(* data/preprocess.py: create_carbon_pool_table.  A class name is the set  *)
(* of its words; a keyword is in the name when it is a substring of one    *)
(* of the lower-cased words.                                               *)
(***************************************************************************)
Vocabulary ==
    {"Primary", "secondary", "Forest", "shrub", "savanna", "crop", "built",
     "mineral", "water"}

\* str.lower
Lower(word) ==
    CASE word = "Primary" -> "primary"
      [] word = "Forest" -> "forest"
      [] OTHER -> word

\* the keywords of the function that are substrings of a lower-case word
KeywordsIn(word) ==
    CASE word = "primary" -> {"primary"}
      [] word = "secondary" -> {"secondary"}
      [] word = "forest" -> {"forest"}
      [] word = "shrub" -> {"shrub"}
      [] word = "savanna" -> {"savanna"}
      [] word = "crop" -> {"crop"}
      [] word = "built" -> {"built"}
      [] word = "mineral" -> {"mine"}
      [] OTHER -> {}

\* keyword in class_name, with class_name = row['lulc_name'].lower()
Has(keyword, name) == \E word \in name : keyword \in KeywordsIn(Lower(word))

ClassNames == {n \in SUBSET Vocabulary : Cardinality(n) \in {1, 2}}

PoolCols == {"c_above", "c_below", "c_soil", "c_dead"}

Pools(above, below, soil, dead) ==
    [c_above |-> above, c_below |-> below, c_soil |-> soil, c_dead |-> dead]

\* a variant of DefaultPools in which a forest that is neither primary nor
\* secondary goes on to the later keywords
DefaultPools_FallThrough(name) ==
    IF Has("forest", name) /\ Has("primary", name) THEN Pools(200, 40, 100, 20)
    ELSE IF Has("forest", name) /\ Has("secondary", name) THEN Pools(150, 35, 90, 15)
    ELSE IF Has("shrub", name) THEN Pools(70, 20, 60, 5)
    ELSE IF Has("grass", name) \/ Has("savanna", name) THEN Pools(15, 5, 40, 1)
    ELSE IF Has("crop", name) THEN Pools(5, 2, 30, 0)
    ELSE IF Has("urban", name) \/ Has("built", name) THEN Pools(2, 1, 20, 0)
    ELSE IF Has("mine", name) THEN Pools(0, 0, 5, 0)
    ELSE Pools(0, 0, 0, 0)

\* the if/elif chain over class_name; the columns start at 0
DefaultPools(name) ==
    IF Has("forest", name)
    THEN IF Has("primary", name) THEN Pools(200, 40, 100, 20)
         ELSE IF Has("secondary", name) THEN Pools(150, 35, 90, 15)
         ELSE Pools(0, 0, 0, 0)
    ELSE IF Has("shrub", name) THEN Pools(70, 20, 60, 5)
    ELSE IF Has("grass", name) \/ Has("savanna", name) THEN Pools(15, 5, 40, 1)
    ELSE IF Has("crop", name) THEN Pools(5, 2, 30, 0)
    ELSE IF Has("urban", name) \/ Has("built", name) THEN Pools(2, 1, 20, 0)
    ELSE IF Has("mine", name) THEN Pools(0, 0, 5, 0)
    ELSE Pools(0, 0, 0, 0)

\* a cell that was never assigned (NaN in the DataFrame, empty in the CSV)
NanCell == -1

NoValues == [given |-> FALSE]

\* carbon_values: lucode -> pool -> value, for some lucodes and some pools
CarbonValueDicts ==
    {[given |-> TRUE, dict |-> d] :
        d \in UNION {[K -> UNION {[Q -> {10}] : Q \in SUBSET PoolCols}] :
                        K \in SUBSET (1..MaxClass)}}

\* `if carbon_values:` is false for None and for an empty dict
Truthy(carbon_values) ==
    carbon_values.given /\ DOMAIN carbon_values.dict # {}

\* the columns and rows of carbon_df when it is saved
CarbonTable(lulc_df, carbon_values) ==
    IF Truthy(carbon_values)
    THEN LET cv == carbon_values.dict
             lucodes == {lulc_df[i].value : i \in 1..Len(lulc_df)}
             added == UNION {DOMAIN cv[l] : l \in lucodes \cap DOMAIN cv}
         IN  [columns |-> {"lucode", "lulc_name"} \cup added,
              rows |-> [i \in 1..Len(lulc_df) |->
                  [col \in {"lucode", "lulc_name"} \cup added |->
                      IF col = "lucode" THEN lulc_df[i].value
                      ELSE IF col = "lulc_name" THEN lulc_df[i].class_name
                      ELSE IF lulc_df[i].value \in DOMAIN cv
                              /\ col \in DOMAIN cv[lulc_df[i].value]
                      THEN cv[lulc_df[i].value][col]
                      ELSE NanCell]]]
    ELSE [columns |-> {"lucode", "lulc_name"} \cup PoolCols,
          rows |-> [i \in 1..Len(lulc_df) |->
              [col \in {"lucode", "lulc_name"} \cup PoolCols |->
                  IF col = "lucode" THEN lulc_df[i].value
                  ELSE IF col = "lulc_name" THEN lulc_df[i].class_name
                  ELSE DefaultPools(lulc_df[i].class_name)[col]]]]

\* os.makedirs(os.path.dirname(output_csv), exist_ok=True) raises
\* FileNotFoundError for an output_csv without a directory part
create_carbon_pool_table(lulc_df, carbon_values, has_dir) ==
    IF ~has_dir
    THEN [outcome |-> "raised", exc |-> "FileNotFoundError", out |-> NoFile]
    ELSE [outcome |-> "returned", exc |-> NoExc,
          out |-> CarbonTable(lulc_df, carbon_values)]

\* the class table that create_lulc_attribute_table writes: one row per
\* LULC value, in increasing order (np.unique), with the given names
ClassTable(names) ==
    [i \in DOMAIN names |-> [value |-> i, class_name |-> names[i]]]

NoTblCall == [outcome |-> "none"]

TblIdle ==
    /\ tIn = NoCall
    /\ tOut = NoFile
    /\ tRes = NoTblCall

\* a call with default values for any class names, or a call with or
\* without a carbon_values dict and with or without a directory part in
\* output_csv
TblStart ==
    /\ \E n \in 0..MaxClass :
          \/ \E names \in [1..n -> ClassNames] :
                tIn = [op |-> "create_carbon_pool_table",
                       lulc_df |-> ClassTable(names),
                       carbon_values |-> NoValues,
                       has_dir |-> TRUE]
          \/ \E cv \in CarbonValueDicts
                        \cup {NoValues, [given |-> TRUE, dict |-> <<>>]},
                dir \in BOOLEAN :
                tIn = [op |-> "create_carbon_pool_table",
                       lulc_df |-> ClassTable([i \in 1..n |-> {"water"}]),
                       carbon_values |-> cv,
                       has_dir |-> dir]
    /\ tOut = NoFile
    /\ tRes = NoTblCall

CreateCarbonPoolTable ==
    /\ tRes = NoTblCall
    /\ tIn # NoCall
    /\ LET r == create_carbon_pool_table(tIn.lulc_df, tIn.carbon_values,
                                         tIn.has_dir)
       IN  /\ tOut' = r.out
           /\ tRes' = [outcome |-> r.outcome, exc |-> r.exc]
    /\ UNCHANGED <<tIn, valVars, rasVars, errVars, dlVars, inpVars, runVars,
                   extVars, admVars, plcVars, hdlVars, rpjVars, prpVars,
                   cmpVars>>

TblNext == CreateCarbonPoolTable

(***************************************************************************)
(* data/preprocess.py: create_lulc_attribute_table and prepare_all_data.   *)
(* The variables base and baseNodata are the LULC raster at lulc_path      *)
(* (clipped to the boundary when the boundary file exists); written is     *)
(* restoration_scenario.tif.                                               *)
(***************************************************************************)
\* f"Class {val}"
ClassWord(val) ==
    CASE val = 1 -> "Class 1"
      [] val = 2 -> "Class 2"
      [] val = 3 -> "Class 3"
      [] OTHER -> "Class n"

\* np.unique(lulc_data) without the values that are not > 0, in increasing
\* order
UniqueValues(pix) ==
    LET S == {pix[p] : p \in DOMAIN pix} \cap {v \in Classes : v > 0}
    IN  CHOOSE t \in [1..Cardinality(S) -> S] :
            \A i, j \in 1..Cardinality(S) : i < j => t[i] < t[j]

\* the rows of the CSV written with class_names=None
create_lulc_attribute_table(pix) ==
    LET unique_values == UniqueValues(pix)
    IN  [i \in 1..Len(unique_values) |->
            [value |-> unique_values[i],
             class_name |-> {ClassWord(unique_values[i])}]]

PlaceholderForest == 1

\* the value of the first class whose name contains 'forest' (case=False),
\* or the placeholder value
ForestValue(lulc_classes) ==
    LET forest_classes ==
            SelectSeq(lulc_classes, LAMBDA row : Has("forest", row.class_name))
    IN  IF Len(forest_classes) > 0 THEN forest_classes[1].value
        ELSE PlaceholderForest

\* mining_gdf.buffer(1000): the pixels within the buffer distance of the
\* mining areas, here the areas and the pixels next to them
Buffer(area) == {p \in Pixels : \E q \in area : p - q \in {-1, 0, 1}}

NoTables ==
    [lulc_classes |-> NoFile, carbon_pools |-> NoFile,
     scenario_carbon_pools |-> NoFile]

NoPrepared == [outcome |-> "none"]

PrpIdle ==
    /\ aIn = NoCall
    /\ aOut = NoTables
    /\ aRes = NoPrepared

\* landcover/ and mining/ are missing, hold no file of the wanted kind, or
\* hold one; mining is the set of pixels the mining areas cover (after the
\* overlay with the boundary when the boundary file exists)
PrpStart ==
    /\ aIn \in [op : {"prepare_all_data"},
                landcover : {"missing", "empty", "tif"},
                mining_dir : {"missing", "empty", "shp"},
                mining : SUBSET Pixels]
    /\ aOut = NoTables
    /\ aRes = NoPrepared

\* prepare_all_data: os.listdir raises FileNotFoundError for a missing
\* directory and no handler catches it
PrepareAllData ==
    /\ aRes = NoPrepared
    /\ aIn # NoCall
    /\ LET has_lulc == aIn.landcover = "tif"
           has_mining == aIn.mining_dir = "shp"
           lulc_classes == create_lulc_attribute_table(base)
           tables2 == IF has_lulc
                      THEN [NoTables EXCEPT
                              !.lulc_classes = lulc_classes,
                              !.carbon_pools = CarbonTable(lulc_classes, NoValues)]
                      ELSE NoTables
           forest_value == ForestValue(lulc_classes)
       IN  IF aIn.landcover = "missing"
           THEN /\ aRes' = [outcome |-> "raised", exc |-> "FileNotFoundError"]
                /\ UNCHANGED <<aOut, written, cmpVars>>
           ELSE IF aIn.mining_dir = "missing"
           THEN /\ aRes' = [outcome |-> "raised", exc |-> "FileNotFoundError"]
                /\ aOut' = tables2
                /\ UNCHANGED written
           ELSE IF has_lulc /\ has_mining
           THEN /\ written' = create_scenario_lulc(<<Buffer(aIn.mining)>>,
                                                   <<forest_value>>)
                /\ aOut' = [tables2 EXCEPT !.scenario_carbon_pools =
                                             CarbonTable(lulc_classes, NoValues)]
                /\ aRes' = [outcome |-> "returned", exc |-> NoExc,
                            restoration_scenario |-> TRUE,
                            forest_value |-> forest_value]
           ELSE /\ aOut' = tables2
                /\ aRes' = [outcome |-> "returned", exc |-> NoExc,
                            restoration_scenario |-> FALSE,
                            forest_value |-> forest_value]
                /\ UNCHANGED written
    /\ UNCHANGED <<aIn, base, baseNodata, rcall, valVars, errVars, dlVars,
                   inpVars, runVars, extVars, admVars, plcVars, hdlVars,
                   rpjVars, tblVars, cmpVars>>

PrpNext == PrepareAllData

(***************************************************************************)
(* visualization/maps.py: create_comparison_map, one step per statement    *)
(* that can fail. The function has no exception handler.                   *)
(***************************************************************************)
\* band 1 of baseline_raster and of scenario_raster
BandValues == [Pixels -> Classes]

\* scenario_data - baseline_data
DiffData(baseline_data, scenario_data) ==
    [p \in Pixels |-> scenario_data[p] - baseline_data[p]]

\* diff_data[np.logical_and(baseline_data > 0, scenario_data > 0)]
ComparedData(baseline_data, scenario_data) ==
    LET diff_data == DiffData(baseline_data, scenario_data)
        keep == {p \in Pixels : baseline_data[p] > 0 /\ scenario_data[p] > 0}
        RECURSIVE From(_)
        From(p) == IF p > NPixels THEN <<>>
                   ELSE IF p \in keep THEN <<diff_data[p]>> \o From(p + 1)
                   ELSE From(p + 1)
    IN  From(1)

\* the statements of the function, in order; the boundary is plotted only
\* when admin_boundary is given
ComparisonSteps(call) ==
    <<"open_baseline", "open_scenario", "percentile", "NamedTemporaryFile",
      "write_tmp", "show", "os.remove">>
    \o (IF call.admin_boundary THEN <<"plot_boundary">> ELSE <<>>)
    \o <<"colorbar", "savefig">>

\* the statements that can raise: reading, writing and plotting can fail
\* for reasons outside the program, np.percentile fails or gives nan on an
\* empty valid_data depending on the numpy version
ComparisonCanRaise(call, step) ==
    CASE step = "percentile" ->
             ComparedData(call.baseline_data, call.scenario_data) = <<>>
      [] step = "os.remove" -> FALSE
      [] OTHER -> TRUE

EmptyTmp == [exists |-> TRUE, written |-> FALSE]

\* the temporary file after a statement that completed:
\* NamedTemporaryFile(delete=False) creates it, dst.write fills it and
\* os.remove deletes it
TmpAfter(call, step, tmp) ==
    CASE step = "NamedTemporaryFile" -> EmptyTmp
      [] step = "write_tmp" ->
             [exists |-> TRUE, written |-> TRUE,
              pix |-> DiffData(call.baseline_data, call.scenario_data)]
      [] step = "os.remove" -> NoFile
      [] OTHER -> tmp

NoCompared == [outcome |-> "none"]

CmpIdle ==
    /\ cIn = NoCall
    /\ cpc = 0
    /\ cTmp = NoFile
    /\ cOut = FALSE
    /\ cRes = NoCompared

CmpStart ==
    /\ cIn \in [op : {"create_comparison_map"},
                baseline_data : BandValues,
                scenario_data : BandValues,
                admin_boundary : BOOLEAN]
    /\ cpc = 1
    /\ cTmp = NoFile
    /\ cOut = FALSE
    /\ cRes = NoCompared

ComparisonRunning ==
    /\ cIn # NoCall
    /\ cRes = NoCompared
    /\ cpc \in 1..Len(ComparisonSteps(cIn))

\* the next statement completes
CStepOk ==
    /\ ComparisonRunning
    /\ LET step == ComparisonSteps(cIn)[cpc]
       IN  /\ cTmp' = TmpAfter(cIn, step, cTmp)
           /\ cOut' = (cOut \/ step = "savefig")
    /\ cpc' = cpc + 1
    /\ UNCHANGED <<cIn, cRes, valVars, rasVars, errVars, dlVars, inpVars,
                   runVars, extVars, admVars, plcVars, hdlVars, rpjVars,
                   tblVars, prpVars>>

\* the next statement raises: the exception reaches the caller, and a
\* temporary file that was created stays as it is
CStepRaises ==
    /\ ComparisonRunning
    /\ ComparisonCanRaise(cIn, ComparisonSteps(cIn)[cpc])
    /\ cRes' = [outcome |-> "raised", failedAt |-> ComparisonSteps(cIn)[cpc]]
    /\ UNCHANGED <<cIn, cpc, cTmp, cOut, valVars, rasVars, errVars, dlVars,
                   inpVars, runVars, extVars, admVars, plcVars, hdlVars,
                   rpjVars, tblVars, prpVars>>

\* return fig
CReturn ==
    /\ cIn # NoCall
    /\ cRes = NoCompared
    /\ cpc = Len(ComparisonSteps(cIn)) + 1
    /\ cRes' = [outcome |-> "returned", failedAt |-> "none"]
    /\ UNCHANGED <<cIn, cpc, cTmp, cOut, valVars, rasVars, errVars, dlVars,
                   inpVars, runVars, extVars, admVars, plcVars, hdlVars,
                   rpjVars, tblVars, prpVars>>

CmpNext == CStepOk \/ CStepRaises \/ CReturn

ErrNext == ECall \/ EStepOk \/ EStepRaises

ValInit == ValStart /\ RasIdle /\ ErrIdle /\ DlIdle /\ InpIdle /\ RunIdle
    /\ ExtIdle /\ AdmIdle /\ PlcIdle /\ HdlIdle /\ RpjIdle /\ TblIdle
    /\ PrpIdle /\ CmpIdle

ScenarioInit == ValIdle /\ RasStart /\ ErrIdle /\ DlIdle /\ InpIdle /\ RunIdle
    /\ ExtIdle /\ AdmIdle /\ PlcIdle /\ HdlIdle /\ RpjIdle /\ TblIdle
    /\ PrpIdle /\ CmpIdle

ReclassInit == ValIdle /\ RasStart /\ ErrIdle /\ DlIdle /\ InpIdle /\ RunIdle
    /\ ExtIdle /\ AdmIdle /\ PlcIdle /\ HdlIdle /\ RpjIdle /\ TblIdle
    /\ PrpIdle /\ CmpIdle

ErrInit == ValIdle /\ RasIdle /\ ErrIdle /\ DlIdle /\ InpIdle /\ RunIdle
    /\ ExtIdle /\ AdmIdle /\ PlcIdle /\ HdlIdle /\ RpjIdle /\ TblIdle
    /\ PrpIdle /\ CmpIdle

DlInit == ValIdle /\ RasIdle /\ ErrIdle /\ DlStart /\ InpIdle /\ RunIdle
    /\ ExtIdle /\ AdmIdle /\ PlcIdle /\ HdlIdle /\ RpjIdle /\ TblIdle
    /\ PrpIdle /\ CmpIdle

InpInit == ValIdle /\ RasIdle /\ ErrIdle /\ DlIdle /\ InpStart /\ RunIdle
    /\ ExtIdle /\ AdmIdle /\ PlcIdle /\ HdlIdle /\ RpjIdle /\ TblIdle
    /\ PrpIdle /\ CmpIdle

SpecValue == ValInit /\ [][ValNext]_vars

SpecScenario == ScenarioInit /\ [][ScenarioNext]_vars

SpecReclass == ReclassInit /\ [][ReclassNext]_vars

SpecErr == ErrInit /\ [][ErrNext]_vars

SpecDownload == DlInit /\ [][DlNext]_vars

SpecInputs == InpInit /\ [][InpNext]_vars

RunInit == ValIdle /\ RasIdle /\ ErrIdle /\ DlIdle /\ InpIdle /\ RunStart
    /\ ExtIdle /\ AdmIdle /\ PlcIdle /\ HdlIdle /\ RpjIdle /\ TblIdle
    /\ PrpIdle /\ CmpIdle

SpecRun == RunInit /\ [][RunNext]_vars

ExtInit ==
    ValIdle /\ RasIdle /\ ErrIdle /\ DlIdle /\ InpIdle /\ RunIdle /\ ExtStart
    /\ AdmIdle /\ PlcIdle /\ HdlIdle /\ RpjIdle /\ TblIdle /\ PrpIdle
    /\ CmpIdle

SpecExtract == ExtInit /\ [][ExtNext]_vars

AdmInit ==
    ValIdle /\ RasIdle /\ ErrIdle /\ DlIdle /\ InpIdle /\ RunIdle /\ ExtIdle
    /\ AdmStart /\ PlcIdle /\ HdlIdle /\ RpjIdle /\ TblIdle /\ PrpIdle
    /\ CmpIdle

SpecAdmin == AdmInit /\ [][AdmNext]_vars

PlcInit ==
    ValIdle /\ RasIdle /\ ErrIdle /\ DlIdle /\ InpIdle /\ RunIdle /\ ExtIdle
    /\ AdmIdle /\ PlcStart /\ HdlIdle /\ RpjIdle /\ TblIdle /\ PrpIdle
    /\ CmpIdle

SpecPlaceholder == PlcInit /\ [][PlcNext]_vars

HdlInit ==
    ValIdle /\ RasIdle /\ ErrIdle /\ DlIdle /\ InpIdle /\ RunIdle /\ ExtIdle
    /\ AdmIdle /\ PlcIdle /\ HdlStart /\ RpjIdle /\ TblIdle /\ PrpIdle
    /\ CmpIdle

SpecHandles == HdlInit /\ [][HdlNext]_vars

RpjInit ==
    ValIdle /\ RasIdle /\ ErrIdle /\ DlIdle /\ InpIdle /\ RunIdle /\ ExtIdle
    /\ AdmIdle /\ PlcIdle /\ HdlIdle /\ RpjStart /\ TblIdle /\ PrpIdle
    /\ CmpIdle

SpecReproject == RpjInit /\ [][RpjNext]_vars

TblInit ==
    ValIdle /\ RasIdle /\ ErrIdle /\ DlIdle /\ InpIdle /\ RunIdle /\ ExtIdle
    /\ AdmIdle /\ PlcIdle /\ HdlIdle /\ RpjIdle /\ TblStart /\ PrpIdle
    /\ CmpIdle

SpecPoolTable == TblInit /\ [][TblNext]_vars

PrpInit ==
    ValIdle /\ RasStart /\ ErrIdle /\ DlIdle /\ InpIdle /\ RunIdle /\ ExtIdle
    /\ AdmIdle /\ PlcIdle /\ HdlIdle /\ RpjIdle /\ TblIdle /\ PrpStart
    /\ CmpIdle

SpecPrepare == PrpInit /\ [][PrpNext]_vars

CmpInit ==
    ValIdle /\ RasIdle /\ ErrIdle /\ DlIdle /\ InpIdle /\ RunIdle /\ ExtIdle
    /\ AdmIdle /\ PlcIdle /\ HdlIdle /\ RpjIdle /\ TblIdle /\ PrpIdle
    /\ CmpStart

SpecComparison == CmpInit /\ [][CmpNext]_vars

(***************************************************************************)
(* Valuation properties                                                    *)
(***************************************************************************)
Returned(op) == vcall.op = op /\ vres # NoCall

\* 3.67 as the claims state it
ClaimFactor == Rat(367, 100)

\* the mean of an input as the claims state it
ClaimMean(data) ==
    IF data.kind = "scalar" THEN data.v ELSE Rat(SeqSum(data.v), Len(data.v))

\* C1: for a scalar carbon value c, area a, price p and discount rate r > 0,
\* calculate_carbon_value returns total_carbon_mg = c*a, mean_co2_mgha = 3.67*c,
\* total_co2_mg = 3.67*c*a, value_per_ha_usd = 3.67*c*p,
\* total_value_usd = 3.67*c*a*p, npv_per_ha_usd = value_per_ha_usd / r and
\* npv_total_usd = total_value_usd / r.
C1_ScalarValuation ==
    (/\ Returned("calculate_carbon_value")
     /\ vcall.carbon_data.kind = "scalar"
     /\ RPos(vcall.discount_rate))
    => LET c == vcall.carbon_data.v
           a == vcall.area_ha
           p == vcall.price_per_ton_co2
           r == vcall.discount_rate
           k == ClaimFactor
       IN  /\ vres.total_carbon_mg = RMul(c, a)
           /\ vres.mean_co2_mgha = RMul(k, c)
           /\ vres.total_co2_mg = RMul(RMul(k, c), a)
           /\ vres.value_per_ha_usd = RMul(RMul(k, c), p)
           /\ vres.total_value_usd = RMul(RMul(RMul(k, c), a), p)
           /\ vres.npv_per_ha_usd = RDiv(vres.value_per_ha_usd, r)
           /\ vres.npv_total_usd = RDiv(vres.total_value_usd, r)

\* C1 witness: a scalar call with r > 0 returned a positive, finite total NPV
C1_Witness ==
    /\ Returned("calculate_carbon_value")
    /\ vcall.carbon_data.kind = "scalar"
    /\ RPos(vcall.discount_rate)
    /\ RPos(vres.npv_total_usd)
    /\ vres.npv_total_usd # vres.total_value_usd

\* C2: compare_scenarios returns carbon_diff_mgha = scenario mean - baseline
\* mean, carbon_diff_total_mg = carbon_diff_mgha * area_ha, the CO2 differences
\* as 3.67 times the carbon differences, the value differences as the CO2
\* differences times the price; swapping baseline and scenario negates each of
\* the six difference fields.
C2_ScenarioDelta ==
    Returned("compare_scenarios")
    => LET a == vcall.area_ha
           p == vcall.price_per_ton_co2
           k == ClaimFactor
           swapped == compare_scenarios(vcall.scenario_carbon,
                                        vcall.baseline_carbon, a, p)
       IN  /\ vres.carbon_diff_mgha =
                  RSub(ClaimMean(vcall.scenario_carbon), ClaimMean(vcall.baseline_carbon))
           /\ vres.carbon_diff_total_mg = RMul(vres.carbon_diff_mgha, a)
           /\ vres.co2_diff_mgha = RMul(k, vres.carbon_diff_mgha)
           /\ vres.co2_diff_total_mg = RMul(k, vres.carbon_diff_total_mg)
           /\ vres.value_diff_per_ha_usd = RMul(vres.co2_diff_mgha, p)
           /\ vres.value_diff_total_usd = RMul(vres.co2_diff_total_mg, p)
           /\ vres.carbon_diff_mgha = RNeg(swapped.carbon_diff_mgha)
           /\ vres.carbon_diff_total_mg = RNeg(swapped.carbon_diff_total_mg)
           /\ vres.co2_diff_mgha = RNeg(swapped.co2_diff_mgha)
           /\ vres.co2_diff_total_mg = RNeg(swapped.co2_diff_total_mg)
           /\ vres.value_diff_per_ha_usd = RNeg(swapped.value_diff_per_ha_usd)
           /\ vres.value_diff_total_usd = RNeg(swapped.value_diff_total_usd)

\* C2 witness: a comparison of an array baseline with a lower scenario returned
\* a negative total value difference
C2_Witness ==
    /\ Returned("compare_scenarios")
    /\ vcall.baseline_carbon.kind = "array"
    /\ vres.value_diff_total_usd.n < 0
    /\ vres.value_diff_total_usd.d > 0

(***************************************************************************)
(* Raster properties                                                       *)
(***************************************************************************)
RasterReturned(op) == rcall.op = op /\ rcall.outcome = "returned"

\* the change areas that zip pairs with a new value
NPaired == Min(Len(rcall.change_areas), Len(rcall.new_values))

\* C3: the raster written by create_scenario_lulc differs from the base raster
\* only inside the change areas: a pixel outside every change area keeps its
\* base value, for any base pixel values and any nodata value.
C3_OutsideKept ==
    RasterReturned("create_scenario_lulc")
    => \A p \in Pixels :
          (\A i \in 1..Len(rcall.change_areas) : p \notin rcall.change_areas[i])
          => written.pix[p] = base[p]

\* C4: in the raster written by create_scenario_lulc a pixel inside change
\* area i holds new_values[i] whatever its base value; where areas overlap it
\* holds the value of the last area in list order that covers it.
C4_InsideSet ==
    RasterReturned("create_scenario_lulc")
    => \A p \in Pixels : \A i \in 1..NPaired :
          (/\ p \in rcall.change_areas[i]
           /\ \A j \in (i + 1)..NPaired : p \notin rcall.change_areas[j])
          => written.pix[p] = rcall.new_values[i]

\* the value dict(zip(...)) holds for key v: that of the last row with key v
LastRowFor(rows, v) ==
    LET idx == {i \in 1..Len(rows) : rows[i][1] = v}
    IN  rows[CHOOSE i \in idx : \A j \in idx : j <= i][2]

\* C5: with a reclassification table prepare_lulc_for_invest maps each pixel
\* by its original value only: a pixel whose original value is an
\* original_value of the table gets the table's new_value for it, any other
\* pixel is unchanged, and a chain 1->2, 2->3 never cascades; with no table
\* the written pixels equal the input pixels.
C5_ReclassByOriginal ==
    RasterReturned("prepare_lulc_for_invest")
    => IF rcall.reclassify_table.given
       THEN LET rows == rcall.reclassify_table.rows
            IN  \A p \in Pixels :
                   IF \E i \in 1..Len(rows) : rows[i][1] = base[p]
                   THEN written.pix[p] = LastRowFor(rows, base[p])
                   ELSE written.pix[p] = base[p]
       ELSE written.pix = base

\* C5 witness: a table with the chain a->b, b->c was applied to a raster that
\* holds a; the pixel was written as b, which differs from c
C5_Witness ==
    /\ RasterReturned("prepare_lulc_for_invest")
    /\ rcall.reclassify_table.given
    /\ \E p \in Pixels :
          LET rows == rcall.reclassify_table.rows
          IN  /\ Len(rows) = 2
              /\ rows[1][1] = base[p]
              /\ rows[1][2] = rows[2][1]
              /\ rows[1][2] # base[p]
              /\ rows[2][2] # rows[1][2]
              /\ written.pix[p] = rows[1][2]

(***************************************************************************)
(* Failure handling properties                                             *)
(***************************************************************************)
\* C6 as stated: every exception caught by an except handler is re-raised to
\* the caller, so no operation returns normally after one of its steps raised.
C6_AlwaysReraised ==
    /\ ecaught # {} => (estatus = "raised" /\ eexc # NoExc)
    /\ estatus = "returned" => eraised = {}

\* C6 as amended: every except handler logs the exception and raises it again,
\* except the handler around add_basemap in create_carbon_map, which prints a
\* warning and lets the call go on; an operation returns normally after one of
\* its steps raised only in that case.
C6_ReraisedExceptBasemap ==
    /\ \A st \in ecaught :
          \/ ecall.op = "create_carbon_map" /\ st = "add_basemap"
          \/ estatus = "raised" /\ eexc # NoExc
    /\ ecaught # {} => elog > 0
    /\ (estatus = "returned" /\ eraised # {})
       => (ecall.op = "create_carbon_map" /\ eraised = {"add_basemap"})
    /\ (estatus = "raised") => eexc # NoExc

\* C6 witness: the handler of run_carbon_model caught the exception of
\* natcap.invest.carbon.execute, logged it, and the caller received it
C6_Witness ==
    /\ ecall.op = "run_carbon_model"
    /\ ecaught = {"execute"}
    /\ elog = 1
    /\ estatus = "raised"
    /\ eexc = "ValueError"

(***************************************************************************)
(* download_file properties                                                *)
(***************************************************************************)
Called == dLast.outcome # "none"

\* C7: when a file already exists at output_path, download_file returns
\* output_path without issuing any HTTP request and without modifying or
\* deleting that file.
C7_ExistingFileReturned ==
    (Called /\ dLast.fileBefore # "absent")
    => /\ dLast.outcome = "returned"
       /\ ~dLast.requested
       /\ dDisk.files[dLast.path] = dLast.fileBefore

\* what holds of a call that finds the file: it issues no request and leaves
\* the file alone, and it returns when output_path has a directory part
ExistingFileUntouched ==
    (Called /\ dLast.fileBefore # "absent")
    => /\ ~dLast.requested
       /\ dDisk.files[dLast.path] = dLast.fileBefore
       /\ HasDir(dLast.path) => dLast.outcome = "returned"

InputsCalled == iRes.outcome # "none"

\* the five columns as the claims list them
ClaimColumns == {"lucode", "c_above", "c_below", "c_soil", "c_dead"}

\* the CSV is there, parses, and lacks one of the five columns
ColumnAbsent ==
    /\ iRes.diskBefore.csvReadable
    /\ \E col \in ClaimColumns : col \notin iRes.diskBefore.columns

RaisedValueError == iRes.outcome = "raised" /\ iRes.exc = "ValueError"

\* the call returned the dict of exactly the three arguments, unchanged
ReturnedArgs ==
    /\ iRes.outcome = "returned"
    /\ DOMAIN iRes.args = {"lulc_cur_path", "carbon_pools_path", "workspace_dir"}
    /\ iRes.args.lulc_cur_path = iArgs.lulc_path
    /\ iRes.args.carbon_pools_path = iArgs.carbon_pools_csv
    /\ iRes.args.workspace_dir = iArgs.output_dir

\* a nonzero LULC value of the raster has no lucode row
ValueWithoutRow ==
    \E v \in iRes.diskBefore.values : v # 0 /\ v \notin iRes.diskBefore.lucodes

\* C9: prepare_carbon_inputs raises FileNotFoundError when the LULC raster or
\* the carbon pools CSV does not exist, before creating output_dir or reading
\* any file, so a call that fails this check changes nothing on disk.
C9_MissingInputNoEffect ==
    (InputsCalled /\ (~iRes.diskBefore.lulc \/ ~iRes.diskBefore.csv))
    => /\ iRes.outcome = "raised"
       /\ iRes.exc = "FileNotFoundError"
       /\ iRes.reads = {}
       /\ iDisk = iRes.diskBefore

\* C9 witness: the raster exists, the CSV and output_dir do not; the call
\* raised FileNotFoundError and output_dir still does not exist
C9_Witness ==
    /\ InputsCalled
    /\ iRes.diskBefore.lulc
    /\ iRes.diskBefore.rasterReadable
    /\ ~iRes.diskBefore.csv
    /\ ~iRes.diskBefore.outdir
    /\ iRes.exc = "FileNotFoundError"
    /\ ~iDisk.outdir

\* C10 as stated: prepare_carbon_inputs raises ValueError exactly when one of
\* the columns lucode, c_above, c_below, c_soil, c_dead is absent from the
\* CSV; a nonzero LULC value with no lucode row only produces a warning, and
\* the call then returns the dict of the three arguments.
C10_ValueErrorIffColumnAbsent ==
    InputsCalled
    => /\ RaisedValueError <=> ColumnAbsent
       /\ (~ColumnAbsent /\ ValueWithoutRow) => (iRes.warned /\ ReturnedArgs)

\* C10 as amended: when both input files exist and can be read and
\* output_dir exists or can be created, prepare_carbon_inputs raises
\* ValueError exactly when one of the five columns is absent from the CSV;
\* otherwise it returns the dict of exactly the three arguments, after a
\* warning when a nonzero LULC value has no lucode row.  A call never raises
\* ValueError for any other reason.
C10_ValueErrorIffColumnAbsentWhenReadable ==
    InputsCalled
    => /\ (/\ iRes.diskBefore.rasterReadable
           /\ iRes.diskBefore.csvReadable
           /\ iRes.diskBefore.outdirCreatable)
          => /\ RaisedValueError <=> ColumnAbsent
             /\ ~ColumnAbsent => ReturnedArgs
             /\ iRes.warned <=> (~ColumnAbsent /\ ValueWithoutRow)
       /\ RaisedValueError => ColumnAbsent

\* C10 witness: all five columns are present, a nonzero LULC value has no
\* lucode row: the call warned and returned the three arguments
C10_Witness ==
    /\ InputsCalled
    /\ ~ColumnAbsent
    /\ ValueWithoutRow
    /\ iRes.warned
    /\ ReturnedArgs

(***************************************************************************)
(* run_carbon_model properties                                             *)
(***************************************************************************)
RunDone == mpc \in {"returned", "raised"}

InTrace(ev) == \E i \in 1..Len(mTrace) : mTrace[i] = ev

\* C11: run_carbon_model summarizes results only after execute has returned
\* without an exception: if execute raises, the exception propagates and no
\* summary is computed; if execute returns but total_carbon.tif is absent
\* from workspace_dir, FileNotFoundError is raised and no result dict is
\* returned.
C11_SummaryOnlyAfterExecute ==
    /\ InTrace("summarize") => mTrace = <<"execute_returned", "summarize">>
    /\ InTrace("execute_raised")
       => /\ mpc = "raised"
          /\ mExc \in ExcKinds
          /\ mTrace = <<"execute_raised">>
          /\ mRes = NoResult
    /\ (RunDone /\ InTrace("execute_returned") /\ mWork = NoFile)
       => /\ mpc = "raised"
          /\ mExc = "FileNotFoundError"
          /\ mRes = NoResult
    /\ mpc = "returned" => (mRes # NoResult /\ mWork # NoFile)

\* C11 witness: execute returned without writing total_carbon.tif and the
\* summary raised FileNotFoundError
C11_Witness ==
    /\ mTrace = <<"execute_returned", "summarize">>
    /\ mWork = NoFile
    /\ mpc = "raised"
    /\ mExc = "FileNotFoundError"

(***************************************************************************)
(* extract_invest_results properties                                       *)
(***************************************************************************)
Extracted == xRes.outcome # "none"

KnownModel == xCall.model_name \in {"carbon", "habitat_quality", "sdr"}

\* C12: extract_invest_results copies every expected output file that exists
\* in the workspace and records it in the returned dict, each file
\* independently of the others: the key of the secondary raster ('npv',
\* 'degradation', 'sediment_retention') is present whenever that raster
\* exists, also when the primary raster is absent.
C12_EachFileIndependently ==
    (Extracted /\ KnownModel /\ xCall.creatable /\ xWork.secondary # NoFile
        /\ xWork.primary = NoFile)
    => /\ xRes.outcome = "returned"
       /\ SecondaryKey(xCall.model_name) \in DOMAIN xRes.results
       /\ xOut[SecondaryOut(xCall.model_name)] = xWork.secondary

\* what does hold: with the primary raster present, each existing raster is
\* copied and recorded unless the carbon summary fails
ExtractedWhenPrimaryPresent ==
    (Extracted /\ KnownModel /\ xRes.outcome = "returned")
    => /\ xWork.primary # NoFile
          <=> PrimaryKey(xCall.model_name) \in DOMAIN xRes.results
       /\ xWork.secondary # NoFile
          <=> SecondaryKey(xCall.model_name) \in DOMAIN xRes.results
       /\ xWork.secondary # NoFile => xWork.primary # NoFile

(***************************************************************************)
(* download_admin_boundaries properties                                    *)
(***************************************************************************)
AdmCalled == bLast.outcome # "none"

ShapefileExists == bLast.admin_level \in bDisk.extracted

\* C13: download_admin_boundaries returns a path only when the shapefile of
\* the requested level exists in the extraction directory after unzipping,
\* and raises FileNotFoundError when it does not; the archive is downloaded
\* only when the zip is not already on disk, but it is extracted on every
\* call that gets as far as the extraction, also when the shapefile was
\* already there.
C13_PathOnlyWithShapefile ==
    AdmCalled
    => /\ bLast.outcome = "returned" => (ShapefileExists /\ bLast.unzipped)
       /\ (bLast.unzipped /\ ~ShapefileExists)
          => (bLast.outcome = "raised" /\ bLast.exc = "FileNotFoundError")
       /\ bLast.exc = "FileNotFoundError" => (bLast.unzipped /\ ~ShapefileExists)
       /\ bLast.requested => bLast.zipBefore = "absent"
       /\ (bLast.zipBefore = "good" /\ bLast.failAt \notin {"makedirs", "extractall"})
          => (~bLast.requested /\ bLast.unzipped)
       /\ bLast.zipBefore # "absent" => bDisk.zip = bLast.zipBefore

\* C13 witness: a second call finds the zip on disk and the shapefile already
\* extracted; it issues no request, extracts again and returns the path
C13_Witness ==
    /\ bCalls = 2
    /\ bLast.outcome = "returned"
    /\ bLast.zipBefore = "good"
    /\ bLast.shapeBefore
    /\ ~bLast.requested
    /\ bLast.unzipped

(***************************************************************************)
(* placeholder downloader properties                                       *)
(***************************************************************************)
PlcReturned == pLast.outcome = "returned"

\* C14: for each of the four placeholder downloaders, after a call returns a
\* file exists at the returned path; a file that already existed there keeps
\* its content; so any number of repeated calls with the same arguments
\* leaves the same file as the first call.
C14_PlaceholderIdempotent ==
    PlcReturned
    => /\ pDisk.files[pLast.path] # Absent
       /\ pLast.fileBefore # Absent
          => (pDisk.files[pLast.path] = pLast.fileBefore /\ ~pLast.wrote)
       /\ pLast.repeated => pDisk.files[pLast.path] = pFirst[pLast.path]
       /\ \A p \in PlaceholderPaths :
             pFirst[p] # Absent => pDisk.files[p] = pFirst[p]

\* C14 witness: the third call of download_landcover_data for the same year
\* returns the placeholder file the first call wrote
C14_Witness ==
    /\ pCalls = MaxCalls
    /\ PlcReturned
    /\ pLast.call.op = "download_landcover_data"
    /\ pLast.repeated
    /\ pLast.fileBefore = PlaceholderText(pLast.call)
    /\ pDisk.files[pLast.path] = PlaceholderText(pLast.call)

(***************************************************************************)
(* handle properties                                                       *)
(***************************************************************************)
HdlDone == hStatus \in {"returned", "raised"}

\* C15: every file, raster or network handle that an operation opens is
\* closed by the time the operation returns or raises; in particular
\* download_file releases both the output file and the streamed HTTP
\* response on its failure path as well as on success.
C15_AllHandlesClosed == HdlDone => hOpen = {}

\* what does hold: every handle opened in a with block is closed when the
\* operation ends; only the response of download_file can stay open, and
\* only when the call raises after requests.get returned
HandlesClosedExceptResponse ==
    HdlDone
    => /\ hOpen \subseteq {"response"}
       /\ hOpen # {} => (hCall.op = "download_file" /\ hStatus = "raised" /\ hpc > 1)
       /\ hStatus = "returned" => hOpen = {}

(***************************************************************************)
(* calculate_carbon_value: array input                                     *)
(***************************************************************************)
ArrayCall == Returned("calculate_carbon_value") /\ vcall.carbon_data.kind = "array"

ExpectedRaster ==
    LET source == jFiles0[jCall.input_path]
    IN  [exists |-> TRUE,
         crs |-> IF jCall.reproject_to THEN DstCrs ELSE source.crs,
         clipped |-> jCall.op = "clip_raster_to_region",
         bands |-> source.bands]

\* C17: reproject_raster never truncates or writes the file it reads from
\* while bands of the source remain to be read; this holds also for the call
\* made by clip_raster_to_region with reproject_to set, which passes the same
\* path as input_path and output_path, so the returned raster holds the
\* complete clipped data in the requested CRS.
C17_SourceNotOverwritten ==
    /\ ~jRun.clobbered
    /\ jpc = "returned" => jFiles[jCall.output_path] = ExpectedRaster

\* what does hold: a call whose output file is not the file reproject_raster
\* reads from returns the complete raster
ReprojectedWhenPathsDiffer ==
    (/\ jpc = "returned"
     /\ jCall.op = "reproject_raster" => jCall.input_path # jCall.output_path
     /\ jCall.op = "clip_raster_to_region" => ~jCall.reproject_to)
    => (~jRun.clobbered /\ jFiles[jCall.output_path] = ExpectedRaster)

(***************************************************************************)
(* create_carbon_pool_table properties                                     *)
(***************************************************************************)
TableWritten == tRes.outcome = "returned"

DefaultsUsed == ~Truthy(tIn.carbon_values)

\* the first keyword group a name matches, in the order of the claim
ClaimGroup(name) ==
    IF Has("forest", name) THEN "forest"
    ELSE IF Has("shrub", name) THEN "shrub"
    ELSE IF Has("grass", name) \/ Has("savanna", name) THEN "savanna"
    ELSE IF Has("crop", name) THEN "crop"
    ELSE IF Has("urban", name) \/ Has("built", name) THEN "built"
    ELSE IF Has("mine", name) THEN "mineral"
    ELSE "none"

\* the pools of the claim: those of the forest rule, 0 for no group, and for
\* any other group the pools of a name that has the keyword of that group only
ClaimPools(name) ==
    LET group == ClaimGroup(name)
    IN  IF group = "forest"
        THEN IF Has("primary", name) THEN Pools(200, 40, 100, 20)
             ELSE IF Has("secondary", name) THEN Pools(150, 35, 90, 15)
             ELSE Pools(0, 0, 0, 0)
        ELSE IF group = "none" THEN Pools(0, 0, 0, 0)
        ELSE DefaultPools({group})

\* C18: with no carbon_values, create_carbon_pool_table sets the four pools
\* of a class from the first keyword group its lower-cased name matches, in
\* the order forest, shrub, grass/savanna, crop, urban/built, mine: a name
\* containing 'forest' gets 200/40/100/20 if it contains 'primary', else
\* 150/35/90/15 if it contains 'secondary', and otherwise 0 for all four
\* pools even when the name also contains a later keyword; a name matching no
\* keyword gets 0 for all four pools.
C18_FirstKeywordGroup ==
    (TableWritten /\ DefaultsUsed)
    => \A i \in 1..Len(tOut.rows) :
          \A pool \in PoolCols :
             tOut.rows[i][pool] = ClaimPools(tIn.lulc_df[i].class_name)[pool]

\* C18 witness: a table written with default values has a forest that is
\* neither primary nor secondary but has 'mine' in its name, with 0 soil
\* carbon, and a primary forest with 200 above ground
C18_Witness ==
    /\ TableWritten
    /\ DefaultsUsed
    /\ Len(tOut.rows) = 2
    /\ tIn.lulc_df[1].class_name = {"Forest", "mineral"}
    /\ tOut.rows[1]["c_soil"] = 0
    /\ tIn.lulc_df[2].class_name = {"Primary", "Forest"}
    /\ tOut.rows[2]["c_above"] = 200

\* C19: every table written by create_carbon_pool_table, with default values
\* or with any carbon_values dict, has the columns lucode, c_above, c_below,
\* c_soil and c_dead, so prepare_carbon_inputs never raises ValueError for
\* missing columns on a table that create_carbon_pool_table produced.
C19_WrittenTableHasColumns ==
    TableWritten
    => /\ ClaimColumns \subseteq tOut.columns
       /\ missing_cols([columns |-> tOut.columns]) = {}

\* what does hold: a table written with default values has the five columns
DefaultTableHasColumns ==
    (TableWritten /\ DefaultsUsed)
    => /\ ClaimColumns \subseteq tOut.columns
       /\ missing_cols([columns |-> tOut.columns]) = {}

(***************************************************************************)
(* prepare_all_data properties                                             *)
(***************************************************************************)
ScenarioWritten ==
    aRes.outcome = "returned" /\ aRes.restoration_scenario /\ written # NoRaster

HasLucodeRow(table, v) == \E i \in 1..Len(table.rows) : table.rows[i]["lucode"] = v

\* C20: after prepare_all_data has written a restoration scenario, every
\* nonzero LULC value that occurs in restoration_scenario.tif has a lucode
\* row in scenario_carbon_pools.csv, including the value that was written
\* into the buffered mining areas.
C20_ScenarioValuesHaveRows ==
    ScenarioWritten
    => \A p \in Pixels :
          written.pix[p] # 0
          => HasLucodeRow(aOut.scenario_carbon_pools, written.pix[p])

\* what does hold: every nonzero value of the scenario raster other than the
\* value written into the mining areas has a lucode row
UnchangedValuesHaveRows ==
    ScenarioWritten
    => \A p \in Pixels :
          (written.pix[p] # 0 /\ written.pix[p] # aRes.forest_value)
          => HasLucodeRow(aOut.scenario_carbon_pools, written.pix[p])

(***************************************************************************)
(* create_comparison_map properties                                        *)
(***************************************************************************)
\* C21: create_comparison_map leaves no temporary file behind: the
\* temporary difference raster no longer exists when the call returns, and
\* also when the call raises while writing or displaying that raster.
C21_NoTemporaryFileLeft ==
    (cRes.outcome = "returned"
       \/ (cRes.outcome = "raised" /\ cRes.failedAt \in {"write_tmp", "show"}))
    => cTmp = NoFile

\* what does hold: the temporary file is gone when the call returns, and
\* when it raises before the file is created or after it is removed
NoTemporaryFileUnlessRaisedWhileUsed ==
    (cRes.outcome = "returned"
       \/ (cRes.outcome = "raised" /\ cRes.failedAt \notin {"write_tmp", "show"}))
    => cTmp = NoFile

\* a call that raises while writing or displaying leaves the file behind
TemporaryFileLeftWhenRaisedWhileUsed ==
    (cRes.outcome = "raised" /\ cRes.failedAt \in {"write_tmp", "show"})
    => cTmp # NoFile

====
